---- MODULE Spec2Model ----
(***************************************************************************)
(* A model of shzm's parser (parser.js, utils.js, the batch driver).       *)
(*                                                                         *)
(* Syntax trees are ESTree nodes as acorn builds them: records with a      *)
(* `type`, a `start`/`end` span and the children the code reads.  Offsets  *)
(* are counted in tokens.  A resolved dotted name (a JavaScript string) is *)
(* the sequence of its tokens: "api().foo" is <<"api", "()", ".", "foo">>. *)
(* A JavaScript scalar is the token that spells it: "0", "false", "''",    *)
(* "null", "'a'", "x" ...                                                  *)
(***************************************************************************)
EXTENDS Integers, Sequences, FiniteSets, TLC

VARIABLES
  ast,        \* the tree (or subtree) handed to the operation under check
  status,     \* "ready" | "walking" | "returned" | "TypeError" | "ParseLimitationsError"
  idx,        \* number of CallExpression callbacks the walk has made so far
  dotted,     \* parseCallee's result
  calls,      \* findFuncCalls' `calls`
  tests,      \* findTests' `tests`
  hooks,      \* findTests' `hooks`
  functions,  \* findExportedFunc's `exportedFunctions`
  atChar,     \* the offset carried by a thrown ParseLimitationsError
  command,    \* the batch driver's command: "tests" | "functions" ("none": no driver)
  disk,       \* the files the driver can read, by path
  filenames,  \* the driver's `filenames`: the resolved paths, sorted
  out,        \* the driver's `out`: path -> extraction result
  stdout,     \* what console.log has printed
  stderr,     \* what console.error has printed
  exitCode,   \* the status the process exits with
  _fileLineInfoCache,  \* utils.js: the most recently read file's line info
  loc         \* mapCharOffsetToLineno's result

\* The state of the driver and of utils.js.
driverVars ==
  <<command, disk, filenames, out, stdout, stderr, exitCode, _fileLineInfoCache, loc>>

vars == <<ast, status, idx, dotted, calls, tests, hooks, functions, atChar, driverVars>>

\* No key set: the value of `{}`, and of a record that is `undefined`.
Empty == <<>>

\* The driver is not running and utils.js is freshly loaded.
DriverIdle ==
  /\ command = "none"
  /\ disk = Empty
  /\ filenames = <<>>
  /\ out = Empty
  /\ stdout = <<>>
  /\ stderr = <<>>
  /\ exitCode = 0
  /\ _fileLineInfoCache = Empty
  /\ loc = Empty

----------------------------------------------------------------------------
(* Tree shapes (nodes before the parser has given them their spans).       *)

Id(n) == [type |-> "Identifier", name |-> n]
This == [type |-> "ThisExpression"]
Lit(v) == [type |-> "Literal", value |-> v]
Member(o, p) == [type |-> "MemberExpression", object |-> o, property |-> Id(p), computed |-> FALSE]
Index(o, e) == [type |-> "MemberExpression", object |-> o, property |-> e, computed |-> TRUE]
Call(c, args) == [type |-> "CallExpression", callee |-> c, arguments |-> args]
New(c, args) == [type |-> "NewExpression", callee |-> c, arguments |-> args]
Arr(es) == [type |-> "ArrayExpression", elements |-> es]
Hole == [type |-> "null"]
Obj(ps) == [type |-> "ObjectExpression", properties |-> ps]
Prop(k, v) == [type |-> "Property", key |-> k, value |-> v, computed |-> FALSE]
Spread(e) == [type |-> "SpreadElement", argument |-> e]
Tpl(qs, es) == [type |-> "TemplateLiteral", quasis |-> qs, expressions |-> es]
Quasi(raw) == [type |-> "TemplateElement", raw |-> raw]
Block(ss) == [type |-> "BlockStatement", body |-> ss]
Arrow(a, b) == [type |-> "ArrowFunctionExpression", async |-> a, body |-> b]
Func(a, b) == [type |-> "FunctionExpression", async |-> a, body |-> b]
Await(e) == [type |-> "AwaitExpression", argument |-> e]
Stmt(e) == [type |-> "ExpressionStatement", expression |-> e]
Program(ss) == [type |-> "Program", body |-> ss]
FuncDecl(n, a, b) == [type |-> "FunctionDeclaration", id |-> Id(n), async |-> a, body |-> b]
Declarator(n, e) == [type |-> "VariableDeclarator", id |-> Id(n), init |-> e]
VarDecl(k, ds) == [type |-> "VariableDeclaration", kind |-> k, declarations |-> ds]
ExportNamed(d) == [type |-> "ExportNamedDeclaration", declaration |-> d]
ExportDefault(d) == [type |-> "ExportDefaultDeclaration", declaration |-> d]

Span(a, b) == [start |-> a, end |-> b]

----------------------------------------------------------------------------
(* acorn's spans.  Every identifier, literal, keyword and punctuation mark *)
(* is one token wide; a child's span lies within its parent's; a member    *)
(* access and a call start where their object / callee starts.             *)

RECURSIVE Lay(_, _), LaySeq(_, _, _)

\* The nodes of `ss` laid one after the other from `at`, `sep` tokens apart.
LaySeq(ss, at, sep) ==
  IF ss = <<>> THEN <<>>
  ELSE LET h == Lay(Head(ss), at)
       IN <<h>> \o LaySeq(Tail(ss), h.end + sep, sep)

\* Where a laid sequence ends, `at` when it is empty.
EndOf(laid, at) == IF laid = <<>> THEN at ELSE laid[Len(laid)].end

Lay(s, at) ==
  CASE s.type \in {"Identifier", "ThisExpression", "Literal", "TemplateElement"} ->
         s @@ Span(at, at + 1)
    [] s.type = "null" -> s @@ Span(at, at)
    [] s.type = "MemberExpression" ->
         LET o == Lay(s.object, at)
             p == Lay(s.property, o.end + 1)
         IN [type |-> s.type, object |-> o, property |-> p, computed |-> s.computed]
              @@ Span(at, IF s.computed THEN p.end + 1 ELSE p.end)
    [] s.type = "CallExpression" ->
         LET c == Lay(s.callee, at)
             as == LaySeq(s.arguments, c.end + 1, 1)
         IN [type |-> s.type, callee |-> c, arguments |-> as]
              @@ Span(at, EndOf(as, c.end + 1) + 1)
    [] s.type = "NewExpression" ->
         LET c == Lay(s.callee, at + 1)
             as == LaySeq(s.arguments, c.end + 1, 1)
         IN [type |-> s.type, callee |-> c, arguments |-> as]
              @@ Span(at, EndOf(as, c.end + 1) + 1)
    [] s.type = "ArrayExpression" ->
         LET es == LaySeq(s.elements, at + 1, 1)
         IN [type |-> s.type, elements |-> es] @@ Span(at, EndOf(es, at + 1) + 1)
    [] s.type = "ObjectExpression" ->
         LET ps == LaySeq(s.properties, at + 1, 1)
         IN [type |-> s.type, properties |-> ps] @@ Span(at, EndOf(ps, at + 1) + 1)
    [] s.type = "Property" ->
         LET k == Lay(s.key, at)
             v == Lay(s.value, k.end + 1)
         IN [type |-> s.type, key |-> k, value |-> v, computed |-> s.computed]
              @@ Span(at, v.end)
    [] s.type = "SpreadElement" ->
         LET e == Lay(s.argument, at + 1)
         IN [type |-> s.type, argument |-> e] @@ Span(at, e.end)
    [] s.type = "TemplateLiteral" ->
         LET qs == LaySeq(s.quasis, at + 1, 3)
             es == LaySeq(s.expressions, at + 3, 3)
         IN [type |-> s.type, quasis |-> qs, expressions |-> es]
              @@ Span(at, EndOf(qs, at + 1) + 1)
    [] s.type = "BlockStatement" ->
         LET ss == LaySeq(s.body, at + 1, 0)
         IN [type |-> s.type, body |-> ss] @@ Span(at, EndOf(ss, at + 1) + 1)
    [] s.type \in {"ArrowFunctionExpression", "FunctionExpression"} ->
         LET b == Lay(s.body, at + 3 + (IF s.async THEN 1 ELSE 0))
         IN [type |-> s.type, async |-> s.async, body |-> b] @@ Span(at, b.end)
    [] s.type = "AwaitExpression" ->
         LET e == Lay(s.argument, at + 1)
         IN [type |-> s.type, argument |-> e] @@ Span(at, e.end)
    [] s.type = "ExpressionStatement" ->
         LET e == Lay(s.expression, at)
         IN [type |-> s.type, expression |-> e] @@ Span(at, e.end + 1)
    [] s.type = "Program" ->
         LET ss == LaySeq(s.body, at, 0)
         IN [type |-> s.type, body |-> ss] @@ Span(at, EndOf(ss, at))
    [] s.type = "FunctionDeclaration" ->
         LET i == Lay(s.id, at + 1 + (IF s.async THEN 1 ELSE 0))
             b == Lay(s.body, i.end + 2)
         IN [type |-> s.type, id |-> i, async |-> s.async, body |-> b] @@ Span(at, b.end)
    [] s.type = "VariableDeclarator" ->
         LET i == Lay(s.id, at)
             e == Lay(s.init, i.end + 1)
         IN [type |-> s.type, id |-> i, init |-> e] @@ Span(at, e.end)
    [] s.type = "VariableDeclaration" ->
         LET ds == LaySeq(s.declarations, at + 1, 1)
         IN [type |-> s.type, kind |-> s.kind, declarations |-> ds]
              @@ Span(at, EndOf(ds, at + 1) + 1)
    [] s.type = "ExportNamedDeclaration" ->
         LET d == Lay(s.declaration, at + 1)
         IN [type |-> s.type, declaration |-> d] @@ Span(at, d.end)
    [] s.type = "ExportDefaultDeclaration" ->
         LET d == Lay(s.declaration, at + 2)
         IN [type |-> s.type, declaration |-> d] @@ Span(at, d.end + 1)

\* acorn.parse: the tree of a source text, its root starting at offset 0.
parse(shape) == Lay(shape, 0)

----------------------------------------------------------------------------
(* acorn-walk's walk.ancestor: a depth-first walk that calls the visitor   *)
(* of a node after the node's children, handing it the chain of nodes from *)
(* the walk's root down to the node itself (the node is the last entry,    *)
(* its parent the one before).                                             *)

\* The children of a node, in the order acorn-walk's base visitor takes them.
Children(n) ==
  CASE n.type \in {"Program", "BlockStatement"} -> n.body
    [] n.type = "ExpressionStatement" -> <<n.expression>>
    [] n.type \in {"CallExpression", "NewExpression"} -> <<n.callee>> \o n.arguments
    [] n.type = "MemberExpression" ->
         <<n.object>> \o (IF n.computed THEN <<n.property>> ELSE <<>>)
    [] n.type \in {"ArrowFunctionExpression", "FunctionExpression", "FunctionDeclaration"} ->
         <<n.body>>
    [] n.type = "ArrayExpression" -> SelectSeq(n.elements, LAMBDA e : e.type # "null")
    [] n.type = "ObjectExpression" -> n.properties
    [] n.type = "Property" -> (IF n.computed THEN <<n.key>> ELSE <<>>) \o <<n.value>>
    [] n.type \in {"SpreadElement", "AwaitExpression"} -> <<n.argument>>
    [] n.type = "TemplateLiteral" -> n.quasis \o n.expressions
    [] n.type = "VariableDeclaration" -> n.declarations
    [] n.type = "VariableDeclarator" -> <<n.init>>
    [] n.type \in {"ExportNamedDeclaration", "ExportDefaultDeclaration"} -> <<n.declaration>>
    [] OTHER -> <<>>

RECURSIVE Walk(_, _), WalkSeq(_, _)

WalkSeq(ns, ancestors) ==
  IF ns = <<>> THEN <<>>
  ELSE Walk(Head(ns), ancestors) \o WalkSeq(Tail(ns), ancestors)

\* The CallExpression callbacks of a walk below `ancestors`, in call order.
Walk(node, ancestors) ==
  LET chain == Append(ancestors, node)
  IN WalkSeq(Children(node), chain)
       \o (IF node.type = "CallExpression"
           THEN <<[node |-> node, ancestors |-> chain]>>
           ELSE <<>>)

\* walk.ancestor(root, {CallExpression: ...}): every callback it makes.
Visits(root) == Walk(root, <<>>)

----------------------------------------------------------------------------
(* parseCallee and the name predicates.                                    *)

\* parseCallee's null.
Null == <<>>

\* `_node.property.name`: undefined, spelled "undefined" by the string
\* concatenation, when the property is not an identifier.
PropertyName(p) == IF p.type = "Identifier" THEN p.name ELSE "undefined"

RECURSIVE TraverseDroppingCallMarker(_)

\* _traverse with the CallExpression case returning the receiver's name alone.
TraverseDroppingCallMarker(n) ==
  CASE n.type = "Identifier" -> <<n.name>>
    [] n.type = "MemberExpression" ->
         LET o == TraverseDroppingCallMarker(n.object)
         IN IF o = Null THEN Null ELSE o \o <<".", PropertyName(n.property)>>
    [] n.type = "CallExpression" -> TraverseDroppingCallMarker(n.callee)
    [] n.type = "ThisExpression" -> <<"this">>
    [] OTHER -> Null

RECURSIVE _traverse(_)

\* A thrown IgnoreMe unwinds the whole recursion: Null at any depth is Null.
_traverse(n) ==
  CASE n.type = "Identifier" -> <<n.name>>
    [] n.type = "MemberExpression" ->
         LET o == _traverse(n.object)
         IN IF o = Null THEN Null ELSE o \o <<".", PropertyName(n.property)>>
    [] n.type = "CallExpression" ->
         LET c == _traverse(n.callee)
         IN IF c = Null THEN Null ELSE c \o <<"()">>
    [] n.type = "ThisExpression" -> <<"this">>
    [] OTHER -> Null

parseCallee(node) == _traverse(node.callee)

startsWith(ident, prefix) ==
  Len(ident) >= Len(prefix) /\ SubSeq(ident, 1, Len(prefix)) = prefix

endsWith(ident, suffix) ==
  Len(ident) >= Len(suffix)
    /\ SubSeq(ident, Len(ident) - Len(suffix) + 1, Len(ident)) = suffix

isTestIdentifier(ident) == ident = <<"it">> \/ startsWith(ident, <<"it", ".">>)
isDescribeIdentifier(ident) ==
  ident = <<"describe">> \/ startsWith(ident, <<"describe", ".">>)
isTestOrDescribeIdentifier(ident) == isTestIdentifier(ident) \/ isDescribeIdentifier(ident)
isSkip(ident) == endsWith(ident, <<".", "skip">>)
isIosOnly(ident) == endsWith(ident, <<".", "iosOnly">>) \/ endsWith(ident, <<".", "ios">>)
\* isAndroidOnly knowing the long suffix only.
IsAndroidOnlyLongForm(ident) == endsWith(ident, <<".", "androidOnly">>)

isAndroidOnly(ident) ==
  endsWith(ident, <<".", "androidOnly">>) \/ endsWith(ident, <<".", "android">>)
isOnly(ident) == endsWith(ident, <<".", "only">>)

RECURSIVE Text(_)

\* The JavaScript string a token sequence spells.
Text(tokens) == IF tokens = <<>> THEN "" ELSE Head(tokens) \o Text(Tail(tokens))

----------------------------------------------------------------------------
(* JavaScript values, as far as the literal evaluator builds them.         *)

Undefined == [k |-> "undefined"]
Thrown == [k |-> "TypeError"]
Scalar(v) == [k |-> "scalar", v |-> v]
ObjectValue(es) == [k |-> "object", entries |-> es]
ArrayValue(xs) == [k |-> "array", items |-> xs]

\* The scalar tokens that do not spell a string.
NonStringTokens == {"0", "1", "true", "false", "null"}
FalsyTokens == {"0", "false", "null", "''"}
BooleanTokens == {"true", "false"}

\* The token of the string whose characters are `chars`.
StringToken(chars) == "'" \o chars \o "'"

\* ToBoolean: undefined and the falsy scalars are false, every object is true.
Truthy(val) ==
  \/ val.k \in {"object", "array"}
  \/ val.k = "scalar" /\ val.v \notin FalsyTokens

\* ToPropertyKey: the string a value names a property by.
ToPropertyKey(v) == IF v \in NonStringTokens THEN StringToken(v) ELSE v

\* output[key] = value: a later assignment to a key replaces the earlier one.
SetEntry(es, key, value) ==
  IF \E i \in 1..Len(es) : es[i].key = key
  THEN [i \in 1..Len(es) |-> IF es[i].key = key THEN [key |-> key, value |-> value] ELSE es[i]]
  ELSE Append(es, [key |-> key, value |-> value])

----------------------------------------------------------------------------
(* The literal evaluator and the call-site collector.                      *)

\* getPropertyKey: a scalar token, or Undefined (a spread element has no key; a
\* key that is neither a literal nor an identifier falls off the function's end).
getPropertyKey(propNode) ==
  IF "key" \notin DOMAIN propNode THEN Undefined
  ELSE IF propNode.key.type = "Literal" THEN Scalar(propNode.key.value)
  ELSE IF propNode.key.type = "Identifier" THEN Scalar(StringToken(propNode.key.name))
  ELSE Undefined

RECURSIVE maybeGetLiteralValue(_), LiteralObject(_, _, _), LiteralArray(_, _, _)

\* The loop over node.properties from index i, `output` being what is built so far.
LiteralObject(props, i, output) ==
  IF i > Len(props) THEN ObjectValue(output)
  ELSE LET key == getPropertyKey(props[i])
       IN IF ~Truthy(key) THEN Undefined
          ELSE LET value == maybeGetLiteralValue(props[i].value)
               IN IF value = Thrown THEN Thrown
                  ELSE IF ~Truthy(value) THEN Undefined
                  ELSE LiteralObject(props, i + 1, SetEntry(output, ToPropertyKey(key.v), value))

\* The loop over node.elements from index i.
LiteralArray(elements, i, output) ==
  IF i > Len(elements) THEN ArrayValue(output)
  ELSE LET value == maybeGetLiteralValue(elements[i])
       IN IF value = Thrown THEN Thrown
          ELSE IF ~Truthy(value) THEN Undefined
          ELSE LiteralArray(elements, i + 1, Append(output, value))

\* Reading `.type` of the null that stands for an array hole throws a TypeError.
maybeGetLiteralValue(node) ==
  CASE node.type = "null" -> Thrown
    [] node.type = "Literal" -> Scalar(node.value)
    [] node.type = "ObjectExpression" -> LiteralObject(node.properties, 1, <<>>)
    [] node.type = "ArrayExpression" -> LiteralArray(node.elements, 1, <<>>)
    [] OTHER -> Undefined

\* assertPropertyNodeIsLiteralBooleanAndExtract: the value returned (null or the
\* boolean) and the error pushed, if any.
assertPropertyNodeIsLiteralBooleanAndExtract(node) ==
  IF node.value.type # "Literal" \/ node.value.value \notin BooleanTokens
  THEN [value |-> "null",
        pushed |-> <<[message |-> <<PropertyName(node.key), "expected literal Boolean">>,
                      loc |-> node.value.start]>>]
  ELSE [value |-> node.value.value, pushed |-> <<>>]

\* A key present only when `c` holds: ...(c ? { k: v } : null).
Opt(c, k, v) == IF c THEN k :> v ELSE <<>>

RECURSIVE LiteralArguments(_, _, _), ApiProperties(_, _, _)

\* node.arguments.forEach((a, i) => ...) from (1-based) position i: the
\* index -> value mapping `acc` it leaves, or that a TypeError was thrown.
LiteralArguments(arguments, i, acc) ==
  IF i > Len(arguments) THEN [threw |-> FALSE, map |-> acc]
  ELSE LET value == maybeGetLiteralValue(arguments[i])
       IN IF value = Thrown THEN [threw |-> TRUE, map |-> acc]
          ELSE LiteralArguments(arguments, i + 1,
                                IF Truthy(value) THEN acc @@ ((i - 1) :> value) ELSE acc)

\* apiArguments[0].properties.forEach(argProp => ...) from position i.
ApiProperties(props, i, acc) ==
  IF i > Len(props) THEN acc
  ELSE LET key == getPropertyKey(props[i])
           isSync == key = Scalar("'sync'")
           isWaitAfter == key = Scalar("'waitAfter'")
           sync == assertPropertyNodeIsLiteralBooleanAndExtract(props[i])
           afterSync == IF isSync
                        THEN [acc EXCEPT !.errors = @ \o sync.pushed,
                                         !.apiSyncDisabled = @ \/ sync.value = "false"]
                        ELSE acc
           wait == assertPropertyNodeIsLiteralBooleanAndExtract(props[i])
           afterWait == IF isWaitAfter
                        THEN [afterSync EXCEPT !.errors = @ \o wait.pushed,
                                               !.apiWaitAfter = @ \/ wait.value = "true"]
                        ELSE afterSync
       IN ApiProperties(props, i + 1, afterWait)

NoApiAnnotation == [errors |-> <<>>, apiSyncDisabled |-> FALSE, apiWaitAfter |-> FALSE]

\* The `else if (dottedName.startsWith('api.'))` branch: the flags and errors,
\* or Thrown when node.callee has no `object` to read `.type` of.
ApiAnnotation(node, dottedName) ==
  IF ~startsWith(dottedName, <<"api", ".">>) THEN NoApiAnnotation
  ELSE IF "object" \notin DOMAIN node.callee THEN Thrown
  ELSE LET object == node.callee.object
       IN IF /\ object.type = "CallExpression"
             /\ Len(object.arguments) > 0
             /\ object.arguments[1].type = "ObjectExpression"
          THEN ApiProperties(object.arguments[1].properties, 1, NoApiAnnotation)
          ELSE NoApiAnnotation

\* `start` with the callee's property not looked at.
CallStartOfWholeCall(node) == node.start

\* start: node.callee.property ? node.callee.property.start : node.start
CallStart(node) ==
  IF "property" \in DOMAIN node.callee THEN node.callee.property.start ELSE node.start

\* The CallExpression callback of findFuncCalls: what it does for one node,
\* {skip}, {push, call} or {throw}.
FuncCallVisitor(node, ancestors) ==
  LET parent == IF Len(ancestors) > 1 THEN ancestors[Len(ancestors) - 1] ELSE Hole
      dottedName == parseCallee(node)
      arguments == [i \in 1..Len(node.arguments) |->
                      [type |-> node.arguments[i].type,
                       start |-> node.arguments[i].start,
                       end |-> node.arguments[i].end]]
      literalArguments == LiteralArguments(node.arguments, 1, <<>>)
      api == ApiAnnotation(node, dottedName)
  IN IF dottedName = Null THEN [do |-> "skip"]
     ELSE IF literalArguments.threw THEN [do |-> "throw"]
     ELSE IF dottedName = <<"api">> THEN [do |-> "skip"]
     ELSE IF api = Thrown THEN [do |-> "throw"]
     ELSE [do |-> "push",
           call |->
             [name |-> dottedName,
              start |-> CallStart(node),
              rootStart |-> node.start,
              end |-> node.end,
              arguments |-> arguments,
              await |-> parent.type = "AwaitExpression"]
               @@ Opt(DOMAIN literalArguments.map # {}, "literalArguments",
                      literalArguments.map)
               @@ Opt(api.apiSyncDisabled, "apiSyncDisabled", TRUE)
               @@ Opt(api.apiWaitAfter, "apiWaitAfter", TRUE)
               @@ Opt(api.errors # <<>>, "errors", api.errors)]

RECURSIVE CollectCalls(_, _, _)

\* The callbacks visits[i..] applied in turn to `acc`: the calls returned, or
\* that the walk was left by a TypeError.
CollectCalls(visits, i, acc) ==
  IF i > Len(visits) THEN [threw |-> FALSE, calls |-> acc]
  ELSE LET r == FuncCallVisitor(visits[i].node, visits[i].ancestors)
       IN CASE r.do = "throw" -> [threw |-> TRUE, calls |-> <<>>]
            [] r.do = "skip" -> CollectCalls(visits, i + 1, acc)
            [] r.do = "push" -> CollectCalls(visits, i + 1, Append(acc, r.call))

\* findFuncCalls(ast) as one value.
findFuncCalls(root) == CollectCalls(Visits(root), 1, <<>>)

----------------------------------------------------------------------------
(* The test / hook extractor.                                              *)

SUPPORTED_HOOKS == {"beforeAll", "beforeEach", "afterAll", "afterEach"}

RECURSIVE interleaveArray(_, _)

\* [a1, a2, a3], [b1, b2] => [a1, b1, a2, b2, a3]
interleaveArray(a, b) ==
  IF a = <<>> THEN b
  ELSE IF b = <<>> THEN a
  ELSE <<Head(a), Head(b)>> \o interleaveArray(Tail(a), Tail(b))

\* `${i.name}` for an interpolated expression or a bare identifier argument.
Placeholder(e) == "${" \o PropertyName(e) \o "}"

\* inferTestName: the label, or Thrown when the call has no first argument to
\* read `.type` of.
inferTestName(testCallNode) ==
  IF testCallNode.arguments = <<>> THEN Thrown
  ELSE LET node == testCallNode.arguments[1]
       IN CASE node.type = "Literal" -> Scalar(node.value)
            [] node.type = "TemplateLiteral" ->
                 LET expressions == [i \in 1..Len(node.expressions) |->
                                       Placeholder(node.expressions[i])]
                     quasis == [i \in 1..Len(node.quasis) |-> node.quasis[i].raw]
                 IN Scalar(StringToken(Text(interleaveArray(quasis, expressions))))
            [] node.type = "Identifier" -> Scalar(StringToken(Placeholder(node)))
            [] OTHER -> Scalar(StringToken("[Unparseable: " \o node.type \o "]"))

\* ScopeNodes with the family filter left out.
ScopeNodesOfEveryCall(ancestors) ==
  LET callNodes == SelectSeq(ancestors, LAMBDA n : n.type = "CallExpression")
      named == [i \in 1..Len(callNodes) |->
                  [node |-> callNodes[i], dotted |-> parseCallee(callNodes[i])]]
  IN SelectSeq(named, LAMBDA o : o.dotted # Null)

\* ancestors.filter(CallExpression).map(parseCallee).filter(it / describe family)
ScopeNodes(ancestors) ==
  LET callNodes == SelectSeq(ancestors, LAMBDA n : n.type = "CallExpression")
      named == [i \in 1..Len(callNodes) |->
                  [node |-> callNodes[i], dotted |-> parseCallee(callNodes[i])]]
  IN SelectSeq(named, LAMBDA o : o.dotted # Null /\ isTestOrDescribeIdentifier(o.dotted))

\* One entry of `scope`.
ScopeFrame(o) ==
  [name |-> inferTestName(o.node).v,
   func |-> o.dotted,
   start |-> o.node.start,
   end |-> o.node.end]
    @@ Opt(isSkip(o.dotted), "skip", TRUE)
    @@ Opt(isOnly(o.dotted), "only", TRUE)
    @@ Opt(isIosOnly(o.dotted), "iosOnly", TRUE)
    @@ Opt(isAndroidOnly(o.dotted), "androidOnly", TRUE)

\* scopeNodes.map(...): the frames, or Thrown when a label cannot be read.
Scope(scopeNodes) ==
  IF \E i \in 1..Len(scopeNodes) : inferTestName(scopeNodes[i].node) = Thrown
  THEN [threw |-> TRUE, frames |-> <<>>]
  ELSE [threw |-> FALSE, frames |-> [i \in 1..Len(scopeNodes) |-> ScopeFrame(scopeNodes[i])]]

\* scope.some((n) => n.<flag>)
SomeFrame(scope, flag) == \E i \in 1..Len(scope) : flag \in DOMAIN scope[i] /\ scope[i][flag]

\* The fields a test record and a hook record share.  `async` is kept only
\* where funcNode has one (JSON drops an undefined value).
CaseRecord(node, funcNode, scope, funcCalls) ==
  [scope |-> scope,
   start |-> node.start,
   end |-> node.end,
   funcStart |-> funcNode.start,
   funcEnd |-> funcNode.end,
   calls |-> funcCalls]
    @@ Opt("async" \in DOMAIN funcNode, "async",
           IF "async" \in DOMAIN funcNode THEN funcNode.async ELSE FALSE)

\* A hook record given the aggregate flags a test record has.
HookRecordWithFlags(node, funcNode, scope, funcCalls) ==
  CaseRecord(node, funcNode, scope, funcCalls)
    @@ Opt(SomeFrame(scope, "skip"), "skip", TRUE)
    @@ Opt(SomeFrame(scope, "only"), "only", TRUE)
    @@ Opt(SomeFrame(scope, "iosOnly"), "iosOnly", TRUE)
    @@ Opt(SomeFrame(scope, "androidOnly"), "androidOnly", TRUE)

\* hooks[dottedName].push({scope, start, end, async, funcStart, funcEnd, calls})
HookRecord(node, funcNode, scope, funcCalls) == CaseRecord(node, funcNode, scope, funcCalls)

\* The test of the argument's type with "FunctionExpression" left out.
IsArrowOnly(funcNode) == funcNode.type = "ArrowFunctionExpression"

\* The hook's argument is a function literal.
IsFunctionLiteral(funcNode) ==
  funcNode.type \in {"FunctionExpression", "ArrowFunctionExpression"}

\* The CallExpression callback of findTests: what it does for one node,
\* {skip}, {test, record}, {hook, bucket, record} or {throw}.
TestCallVisitor(node, ancestors) ==
  LET dottedName == parseCallee(node)
      scopeNodes == ScopeNodes(ancestors)
      scope == Scope(scopeNodes)
  IN IF dottedName = Null THEN [do |-> "skip"]
     ELSE IF isTestIdentifier(dottedName) THEN
       IF scope.threw \/ Len(node.arguments) < 2 THEN [do |-> "throw"]
       ELSE LET funcNode == node.arguments[2]
                funcCalls == findFuncCalls(funcNode)
            IN IF funcCalls.threw THEN [do |-> "throw"]
               ELSE [do |-> "test",
                     record |->
                       CaseRecord(node, funcNode, scope.frames, funcCalls.calls)
                         @@ Opt(SomeFrame(scope.frames, "skip"), "skip", TRUE)
                         @@ Opt(SomeFrame(scope.frames, "only"), "only", TRUE)
                         @@ Opt(SomeFrame(scope.frames, "iosOnly"), "iosOnly", TRUE)
                         @@ Opt(SomeFrame(scope.frames, "androidOnly"), "androidOnly", TRUE)]
     ELSE IF Text(dottedName) \in SUPPORTED_HOOKS THEN
       IF Len(node.arguments) # 1 THEN [do |-> "skip"]
       ELSE LET funcNode == node.arguments[1]
                funcCalls == findFuncCalls(funcNode)
            IN IF ~IsFunctionLiteral(funcNode) THEN [do |-> "skip"]
               ELSE IF \E i \in 1..Len(scopeNodes) : isTestIdentifier(scopeNodes[i].dotted)
               THEN [do |-> "skip"]
               ELSE IF scope.threw \/ funcCalls.threw THEN [do |-> "throw"]
               ELSE [do |-> "hook",
                     bucket |-> Text(dottedName),
                     record |-> HookRecord(node, funcNode, scope.frames, funcCalls.calls)]
     ELSE [do |-> "skip"]

\* Object.fromEntries(Array.from(SUPPORTED_HOOKS).map((hook) => [hook, []]))
NoHooks == [hook \in SUPPORTED_HOOKS |-> <<>>]

----------------------------------------------------------------------------
(* Name resolution on its own: parseCallee applied to one call expression. *)

MaxCalleeDepth == 2

CalleeRoots ==
  {Id("api"), Id("someLib"), This, Lit("'s'"), New(Id("Blah"), <<>>), Arr(<<>>),
   Tpl(<<Quasi("t")>>, <<>>)}

\* One more step of a call chain on each receiver of S.
Chained(S) ==
  {Member(o, p) : o \in S, p \in {"foo", "setup"}}
    \cup {Call(o, <<>>) : o \in S}
    \cup {Index(o, e) : o \in S, e \in {Id("b"), Lit("'x'")}}

RECURSIVE CalleeShapes(_)

CalleeShapes(d) ==
  IF d = 0 THEN CalleeRoots
  ELSE CalleeShapes(d - 1) \cup Chained(CalleeShapes(d - 1))

\* README: await this.setup();
ThisSetup == Member(This, "setup")

\* README: await someLib.init().helpers.doSomething().decode();
SomeLibChain ==
  Member(Call(Member(Member(Call(Member(Id("someLib"), "init"), <<>>), "helpers"),
                     "doSomething"), <<>>), "decode")

ApiCallDotFoo == Member(Call(Id("api"), <<>>), "foo")
ApiDotFoo == Member(Id("api"), "foo")

CalleeInputs ==
  {parse(Call(c, <<>>)) :
     c \in CalleeShapes(MaxCalleeDepth) \cup {ThisSetup, SomeLibChain, ApiCallDotFoo, ApiDotFoo}}

InitCallee ==
  /\ ast \in CalleeInputs
  /\ status = "ready"
  /\ idx = 0
  /\ dotted = Null
  /\ calls = <<>>
  /\ tests = <<>>
  /\ hooks = NoHooks
  /\ functions = <<>>
  /\ atChar = 0
  /\ DriverIdle

\* const dottedName = parseCallee(node);
ParseCallee ==
  /\ status = "ready"
  /\ dotted' = parseCallee(ast)
  /\ status' = "returned"
  /\ UNCHANGED <<driverVars, ast, idx, calls, tests, hooks, functions, atChar>>

NextCallee == ParseCallee

SpecCallee == InitCallee /\ [][NextCallee]_vars

RECURSIVE SupportedCallee(_), ResolvedText(_)

\* A callee built only from identifiers, non-computed member accesses, calls used
\* as receivers and a `this` root.
SupportedCallee(n) ==
  CASE n.type \in {"Identifier", "ThisExpression"} -> TRUE
    [] n.type = "MemberExpression" -> ~n.computed /\ SupportedCallee(n.object)
    [] n.type = "CallExpression" -> SupportedCallee(n.callee)
    [] OTHER -> FALSE

\* The name the dotted concatenation rule gives a supported callee.
ResolvedText(n) ==
  CASE n.type = "Identifier" -> n.name
    [] n.type = "MemberExpression" -> ResolvedText(n.object) \o "." \o n.property.name
    [] n.type = "CallExpression" -> ResolvedText(n.callee) \o "()"
    [] n.type = "ThisExpression" -> "this"

\* C4: for every callee built only from identifiers, non-computed member
\* accesses, calls used as receivers and a `this` root, parseCallee returns the
\* name of the dotted concatenation rule; `this.setup()` is named "this.setup",
\* the README's someLib chain "someLib.init().helpers.doSomething().decode", and
\* `api().foo()` is named differently from `api.foo()`.
C4_CalleeNameRule ==
  status = "returned" =>
    /\ SupportedCallee(ast.callee) =>
         dotted # Null /\ Text(dotted) = ResolvedText(ast.callee)
    /\ ast = parse(Call(ThisSetup, <<>>)) => Text(dotted) = "this.setup"
    /\ ast = parse(Call(SomeLibChain, <<>>)) =>
         Text(dotted) = "someLib.init().helpers.doSomething().decode"
    /\ ast = parse(Call(ApiCallDotFoo, <<>>)) =>
         dotted # parseCallee(parse(Call(ApiDotFoo, <<>>)))

\* The README's chain has been resolved, through two calls used as receivers.
C4_Witness ==
  /\ status = "returned"
  /\ ast = parse(Call(SomeLibChain, <<>>))
  /\ dotted = <<"someLib", ".", "init", "()", ".", "helpers", ".", "doSomething", "()",
                ".", "decode">>

----------------------------------------------------------------------------
(* The syntax of a tree, apart from any walk: what lies inside what.       *)

\* Every node that is an immediate part of n.
Parts(n) ==
  CASE n.type \in {"Program", "BlockStatement"} -> n.body
    [] n.type = "ExpressionStatement" -> <<n.expression>>
    [] n.type \in {"CallExpression", "NewExpression"} -> <<n.callee>> \o n.arguments
    [] n.type = "MemberExpression" -> <<n.object, n.property>>
    [] n.type \in {"ArrowFunctionExpression", "FunctionExpression"} -> <<n.body>>
    [] n.type = "FunctionDeclaration" -> <<n.id, n.body>>
    [] n.type = "ArrayExpression" -> n.elements
    [] n.type = "ObjectExpression" -> n.properties
    [] n.type = "Property" -> <<n.key, n.value>>
    [] n.type \in {"SpreadElement", "AwaitExpression"} -> <<n.argument>>
    [] n.type = "TemplateLiteral" -> n.quasis \o n.expressions
    [] n.type = "VariableDeclaration" -> n.declarations
    [] n.type = "VariableDeclarator" -> <<n.id, n.init>>
    [] n.type \in {"ExportNamedDeclaration", "ExportDefaultDeclaration"} -> <<n.declaration>>
    [] OTHER -> <<>>

RECURSIVE CallExpressionsIn(_)

\* The call expressions anywhere in the subtree of n, n included.
CallExpressionsIn(n) ==
  (IF n.type = "CallExpression" THEN {n} ELSE {})
    \cup UNION {CallExpressionsIn(Parts(n)[i]) : i \in 1..Len(Parts(n))}

\* a lies strictly inside b.
Inside(a, b) == b.start <= a.start /\ a.end <= b.end /\ a # b

----------------------------------------------------------------------------
(* findFuncCalls on a function: one CallExpression callback per step.      *)

MaxArgDepth == 1
MaxNestDepth == 2
MaxStmts == 2

Scalars == {"0", "1", "false", "true", "''", "'a'", "null"}
Leaves == {Lit(v) : v \in Scalars} \cup {Id("x")}
FewLeaves == {Lit("1"), Lit("0"), Id("x")}

\* Mappings and sequences of leaves, and the shapes the evaluator gives up on.
FlatLiterals ==
  {Obj(<<Prop(Id("a"), u), Prop(Lit("'b'"), v)>>) : u \in FewLeaves, v \in FewLeaves}
    \cup {Arr(<<u, v>>) : u \in FewLeaves, v \in FewLeaves}
    \cup {Obj(<<>>), Arr(<<>>), Obj(<<Spread(Id("x"))>>), Obj(<<Prop(Lit("0"), Lit("1"))>>),
          Obj(<<Prop(Id("a"), Lit("1")), Prop(Lit("'a'"), Lit("'a'"))>>),
          Arr(<<Hole, Lit("1")>>), Arr(<<Id("x"), Hole>>)}

RECURSIVE ArgShapes(_)

ArgShapes(d) ==
  IF d = 0 THEN Leaves \cup FlatLiterals
  ELSE ArgShapes(d - 1)
         \cup {Obj(<<Prop(Id("a"), v)>>) : v \in ArgShapes(d - 1)}
         \cup {Arr(<<v>>) : v \in ArgShapes(d - 1)}

LiteralCalls ==
  {Call(Id("f"), <<v>>) : v \in ArgShapes(MaxArgDepth)}
    \cup {Call(Id("f"), <<u, v>>) : u \in FewLeaves, v \in FewLeaves}

ApiFlagValues == {Lit("false"), Lit("true"), Lit("0"), Id("someVariable")}

\* The `{ sync: ..., waitAfter: ... }` mappings, either property possibly absent.
ApiOptions ==
  {s \o w : s \in {<<>>} \cup {<<Prop(Id("sync"), v)>> : v \in ApiFlagValues},
            w \in {<<>>} \cup {<<Prop(Id("waitAfter"), v)>> : v \in ApiFlagValues}}
    \cup {<<Prop(Lit("'sync'"), Lit("false"))>>, <<Spread(Id("x"))>>}

ApiCalls ==
  {Call(Member(Call(Id("api"), <<Obj(ps)>>), "submit"), <<>>) : ps \in ApiOptions}
    \cup {Call(Member(Call(Member(Id("api"), "region"), <<Obj(ps)>>), "submit"), <<>>) :
            ps \in ApiOptions}
    \cup {Call(Member(Call(Id("api"), <<>>), "submit"), <<>>),
          Call(Member(Call(Id("api"), <<Id("x")>>), "submit"), <<>>),
          Call(Member(Member(Id("api"), "central"), "get"), <<>>),
          Call(Call(Member(Id("api"), "x"), <<>>), <<>>),
          Call(Id("api"), <<>>)}

\* A call around, beside or beneath another expression.
Around(e) ==
  {Call(Id("f"), <<Arrow(FALSE, Block(<<Stmt(e)>>))>>),
   Call(Id("f"), <<Func(TRUE, Block(<<Stmt(Await(e))>>))>>),
   Call(Id("api"), <<e>>),
   Call(Member(Arr(<<>>), "sort"), <<e>>),
   Call(Member(e, "then"), <<>>),
   New(Id("Blah"), <<e>>)}

RECURSIVE NestedCalls(_)

NestedCalls(d) ==
  IF d = 0 THEN {Call(Id("g"), <<>>), Call(Index(Id("a"), Id("b")), <<>>)}
  ELSE NestedCalls(d - 1) \cup UNION {Around(e) : e \in NestedCalls(d - 1)}

FewStatements ==
  {Call(Id("g"), <<>>), Call(Member(This, "setup"), <<Lit("1")>>),
   Call(Call(Member(Id("api"), "x"), <<>>), <<>>),
   Call(Member(Call(Id("api"), <<Obj(<<Prop(Id("sync"), Lit("false"))>>)>>), "submit"), <<>>)}

RECURSIVE StatementLists(_)

\* The lists of 0..n of the few statements.
StatementLists(n) ==
  IF n = 0 THEN {<<>>}
  ELSE StatementLists(n - 1)
         \cup {Append(ss, Stmt(e)) : ss \in StatementLists(n - 1), e \in FewStatements}

FunctionBodies ==
  {<<Stmt(e)>> : e \in LiteralCalls \cup ApiCalls \cup NestedCalls(MaxNestDepth)}
    \cup StatementLists(MaxStmts)

FunctionInputs == {parse(Arrow(FALSE, Block(ss))) : ss \in FunctionBodies}

InitCalls ==
  /\ ast \in FunctionInputs
  /\ status = "walking"
  /\ idx = 0
  /\ dotted = Null
  /\ calls = <<>>
  /\ tests = <<>>
  /\ hooks = NoHooks
  /\ functions = <<>>
  /\ atChar = 0
  /\ DriverIdle

\* walk.ancestor's next CallExpression callback in findFuncCalls.
FuncCallExpression ==
  /\ status = "walking"
  /\ idx < Len(Visits(ast))
  /\ \E visit \in {Visits(ast)[idx + 1]} :
     \E r \in {FuncCallVisitor(visit.node, visit.ancestors)} :
        /\ status' = IF r.do = "throw" THEN "TypeError" ELSE status
        /\ calls' = IF r.do = "push" THEN Append(calls, r.call) ELSE calls
  /\ idx' = idx + 1
  /\ UNCHANGED <<driverVars, ast, dotted, tests, hooks, functions, atChar>>

\* The walk is over: `return calls`.
FuncCallsReturn ==
  /\ status = "walking"
  /\ idx = Len(Visits(ast))
  /\ status' = "returned"
  /\ UNCHANGED <<driverVars, ast, idx, dotted, calls, tests, hooks, functions, atChar>>

NextCalls == FuncCallExpression \/ FuncCallsReturn

SpecCalls == InitCalls /\ [][NextCalls]_vars

(* What the claims about the collector speak of.                           *)

\* The records `calls` holds for the call expression c.
SitesOf(c) == {i \in 1..Len(calls) : calls[i].rootStart = c.start /\ calls[i].end = c.end}

\* The call expression a record was made for.
CallOf(r) == CHOOSE c \in CallExpressionsIn(ast) : c.start = r.rootStart /\ c.end = r.end

\* c is `api({...}).method(...)`: the receiver is a call of `api` whose sole
\* argument is a mapping literal.
IsApiMethodCall(c) ==
  /\ c.callee.type = "MemberExpression"
  /\ ~c.callee.computed
  /\ c.callee.object.type = "CallExpression"
  /\ c.callee.object.callee = [type |-> "Identifier", name |-> "api",
                               start |-> c.start, end |-> c.start + 1]
  /\ Len(c.callee.object.arguments) = 1
  /\ c.callee.object.arguments[1].type = "ObjectExpression"

ApiMethodCalls == {c \in CallExpressionsIn(ast) : IsApiMethodCall(c)}

\* The properties of the mapping handed to `api`.
ApiMapping(c) == c.callee.object.arguments[1].properties

\* p is the property called `name`, written as an identifier or as a string.
IsNamed(p, name) ==
  /\ p.type = "Property"
  /\ \/ p.key.type = "Identifier" /\ p.key.name = name
     \/ p.key.type = "Literal" /\ p.key.value = StringToken(name)

IsBooleanLiteral(e) == e.type = "Literal" /\ e.value \in BooleanTokens

HasFlag(c, name, token) ==
  \E i \in 1..Len(ApiMapping(c)) :
    /\ IsNamed(ApiMapping(c)[i], name)
    /\ ApiMapping(c)[i].value.type = "Literal"
    /\ ApiMapping(c)[i].value.value = token

\* The `sync` / `waitAfter` properties whose value is not a boolean literal.
IsBadFlag(p) ==
  (IsNamed(p, "sync") \/ IsNamed(p, "waitAfter")) /\ ~IsBooleanLiteral(p.value)

BadFlags(c) == SelectSeq(ApiMapping(c), IsBadFlag)

ErrorLocs(r) ==
  IF "errors" \in DOMAIN r THEN [j \in 1..Len(r.errors) |-> r.errors[j].loc] ELSE <<>>

\* C5: a call `api({...}).method(...)` yields exactly one call site, named
\* "api.method", on which apiSyncDisabled is present (true) iff the mapping has
\* `sync: false`, and apiWaitAfter is present (true) iff it has `waitAfter: true`.
C5_ApiAnnotation ==
  status = "returned" =>
    \A c \in ApiMethodCalls :
      \E i \in 1..Len(calls) :
        /\ SitesOf(c) = {i}
        /\ Text(calls[i].name) = "api." \o c.callee.property.name
        /\ "apiSyncDisabled" \in DOMAIN calls[i] <=> HasFlag(c, "sync", "false")
        /\ "apiWaitAfter" \in DOMAIN calls[i] <=> HasFlag(c, "waitAfter", "true")
        /\ "apiSyncDisabled" \in DOMAIN calls[i] => calls[i].apiSyncDisabled
        /\ "apiWaitAfter" \in DOMAIN calls[i] => calls[i].apiWaitAfter

\* C6: in `api({...}).method(...)`, a `sync` or `waitAfter` property whose value
\* is not a boolean literal leaves the call site recorded and the flag unset, adds
\* exactly one `errors` entry per such property, located at the start of that
\* property's value, and nothing is thrown.
C6_DeferredErrors ==
  \A c \in ApiMethodCalls :
    BadFlags(c) # <<>> =>
      /\ status # "TypeError"
      /\ status = "returned" =>
           \E i \in 1..Len(calls) :
             /\ SitesOf(c) = {i}
             /\ ErrorLocs(calls[i]) = [j \in 1..Len(BadFlags(c)) |-> BadFlags(c)[j].value.start]
             /\ (\E j \in 1..Len(BadFlags(c)) : IsNamed(BadFlags(c)[j], "sync"))
                  => "apiSyncDisabled" \notin DOMAIN calls[i]
             /\ (\E j \in 1..Len(BadFlags(c)) : IsNamed(BadFlags(c)[j], "waitAfter"))
                  => "apiWaitAfter" \notin DOMAIN calls[i]

RECURSIVE FullyLiteral(_), ExactValue(_), ExactEntries(_, _, _)

\* A scalar literal, or a mapping / sequence all of whose leaves are literals.
FullyLiteral(e) ==
  CASE e.type = "Literal" -> TRUE
    [] e.type = "ObjectExpression" ->
         \A i \in 1..Len(e.properties) :
           /\ e.properties[i].type = "Property"
           /\ e.properties[i].key.type \in {"Identifier", "Literal"}
           /\ FullyLiteral(e.properties[i].value)
    [] e.type = "ArrayExpression" ->
         \A i \in 1..Len(e.elements) : FullyLiteral(e.elements[i])
    [] OTHER -> FALSE

ExactEntries(props, i, acc) ==
  IF i > Len(props) THEN acc
  ELSE ExactEntries(props, i + 1,
         SetEntry(acc,
                  IF props[i].key.type = "Identifier"
                  THEN StringToken(props[i].key.name)
                  ELSE ToPropertyKey(props[i].key.value),
                  ExactValue(props[i].value)))

\* The value a fully literal expression denotes.
ExactValue(e) ==
  CASE e.type = "Literal" -> Scalar(e.value)
    [] e.type = "ObjectExpression" -> ObjectValue(ExactEntries(e.properties, 1, <<>>))
    [] e.type = "ArrayExpression" ->
         ArrayValue([i \in 1..Len(e.elements) |-> ExactValue(e.elements[i])])

\* The argument indices of c whose expression is fully literal.
LiteralIndices(c) == {j \in 0..(Len(c.arguments) - 1) : FullyLiteral(c.arguments[j + 1])}

\* C7: on every recorded call site, literalArguments holds key i, mapped to the
\* argument's exact value, iff argument i is fully literal (0, false, the empty
\* string and null included), and the field is present iff some index qualifies.
C7_LiteralArguments ==
  status = "returned" =>
    \A i \in 1..Len(calls) :
      LET r == calls[i]
          c == CallOf(r)
      IN /\ "literalArguments" \in DOMAIN r <=> LiteralIndices(c) # {}
         /\ "literalArguments" \in DOMAIN r =>
              /\ DOMAIN r.literalArguments = LiteralIndices(c)
              /\ \A j \in LiteralIndices(c) :
                   r.literalArguments[j] = ExactValue(c.arguments[j + 1])

\* The call expressions whose callee resolves to a name other than "api".
NamedCalls == {c \in CallExpressionsIn(ast) : parseCallee(c) \notin {Null, <<"api">>}}

\* C8: findFuncCalls returns exactly one record for every call expression of the
\* subtree whose callee resolves to a name other than "api", wherever it lies,
\* and no record for any other call expression; no record is named "api".
C8_EveryNamedCallOnce ==
  status \in {"returned", "TypeError"} =>
    /\ status = "returned"
    /\ \A c \in CallExpressionsIn(ast) :
         Cardinality(SitesOf(c)) = IF c \in NamedCalls THEN 1 ELSE 0
    /\ Len(calls) = Cardinality(NamedCalls)
    /\ \A i \in 1..Len(calls) : calls[i].name # <<"api">>

----------------------------------------------------------------------------
(* findTests on a file: one CallExpression callback per step.              *)

MaxNest == 2
MaxSiblings == 1

\* The callees of the calls a test may be nested in.
GroupCallees ==
  {Id("describe"), Member(Id("describe"), "only"), Member(Id("describe"), "ios"),
   Member(Id("foo"), "skip")}

Labels == <<Lit("'A'"), Lit("'B'"), Lit("'C'"), Lit("'D'"), Lit("'E'")>>

Callback(ss) == Arrow(FALSE, Block(ss))

HookShapes ==
  {Call(Id(h), <<Callback(<<>>)>>) : h \in SUPPORTED_HOOKS}
    \cup {Call(Id("beforeEach"), args) :
            args \in {<<>>, <<Id("setup")>>, <<Func(TRUE, Block(<<>>))>>,
                      <<Callback(<<>>), Callback(<<>>)>>}}

TestCallees ==
  {Id("it"), Member(Id("it"), "skip"), Member(Id("it"), "only"),
   Member(Id("it"), "android"), Member(Id("it"), "androidOnly"), Member(Id("it"), "ios")}

\* What the innermost group holds first: a test, a hook, or a test of too few
\* arguments.
LeafShapes ==
  {Call(c, <<Lit("'x'"), Callback(<<>>)>>) : c \in TestCallees}
    \cup {Call(Id("it"), <<Lit("'t'"), Callback(<<Stmt(Call(Id("beforeEach"), <<Callback(<<>>)>>))>>)>>),
          Call(Id("it"), <<Lit("'todo'")>>)}
    \cup HookShapes

\* What may follow it in the same group.
SiblingShapes ==
  {Call(Member(Id("it"), "iosOnly"), <<Lit("'y'"), Callback(<<Stmt(Call(Id("g"), <<>>))>>)>>),
   Call(Id("beforeAll"), <<Id("setup")>>)}

RECURSIVE SiblingLists(_)

SiblingLists(n) ==
  IF n = 0 THEN {<<>>}
  ELSE SiblingLists(n - 1)
         \cup {Append(ss, Stmt(e)) : ss \in SiblingLists(n - 1), e \in SiblingShapes}

RECURSIVE Nested(_, _)

\* The statement lists ss wrapped in up to n more groups, the outermost one
\* labelled Labels[n].
Nested(n, inner) ==
  IF n = 0 THEN inner
  ELSE inner \cup {<<Stmt(Call(c, <<Labels[MaxNest + 1 - n], Callback(ss)>>))>> :
                     c \in GroupCallees, ss \in Nested(n - 1, inner)}

TestFiles ==
  {Program(ss) :
     ss \in Nested(MaxNest, {<<Stmt(e)>> \o more : e \in LeafShapes,
                                                   more \in SiblingLists(MaxSiblings)})}

TestInputs == {parse(f) : f \in TestFiles}

InitTests ==
  /\ ast \in TestInputs
  /\ status = "walking"
  /\ idx = 0
  /\ dotted = Null
  /\ calls = <<>>
  /\ tests = <<>>
  /\ hooks = NoHooks
  /\ functions = <<>>
  /\ atChar = 0
  /\ DriverIdle

\* walk.ancestor's next CallExpression callback in findTests.
TestCallExpression ==
  /\ status = "walking"
  /\ idx < Len(Visits(ast))
  /\ \E visit \in {Visits(ast)[idx + 1]} :
     \E r \in {TestCallVisitor(visit.node, visit.ancestors)} :
        /\ status' = IF r.do = "throw" THEN "TypeError" ELSE status
        /\ tests' = IF r.do = "test" THEN Append(tests, r.record) ELSE tests
        /\ hooks' = IF r.do = "hook"
                    THEN [hooks EXCEPT ![r.bucket] = Append(@, r.record)]
                    ELSE hooks
  /\ idx' = idx + 1
  /\ UNCHANGED <<driverVars, ast, dotted, calls, functions, atChar>>

\* The walk is over: `return { tests, hooks }`.
FindTestsReturn ==
  /\ status = "walking"
  /\ idx = Len(Visits(ast))
  /\ status' = "returned"
  /\ UNCHANGED <<driverVars, ast, idx, dotted, calls, tests, hooks, functions, atChar>>

NextTests == TestCallExpression \/ FindTestsReturn

SpecTests == InitTests /\ [][NextTests]_vars

(* What the claims about the extractor speak of.                           *)

\* The call expression a test or hook record was made for.
CaseNode(r) == CHOOSE c \in CallExpressionsIn(ast) : c.start = r.start /\ c.end = r.end

\* The calls of the it / describe family.
FamilyCalls ==
  {c \in CallExpressionsIn(ast) :
     parseCallee(c) # Null /\ isTestOrDescribeIdentifier(parseCallee(c))}

\* The family calls that are proper ancestors of n.
EnclosingFrames(n) == {c \in FamilyCalls : Inside(n, c)}

\* The frame f describes the call c.
FrameOf(f, c) ==
  /\ f.start = c.start
  /\ f.end = c.end
  /\ f.func = parseCallee(c)
  /\ f.name = c.arguments[1].value

\* `scope` holds one frame for each call of `frames`, and nothing else.
OneFramePer(scope, frames) ==
  /\ Len(scope) = Cardinality(frames)
  /\ \A c \in frames : \E j \in 1..Len(scope) : FrameOf(scope[j], c)

\* Each frame of `scope` lies inside the one before it.
OutermostFirst(scope) ==
  \A j, k \in 1..Len(scope) :
    j < k => scope[j].start <= scope[k].start /\ scope[k].end <= scope[j].end

ScopeLabels(r) == [j \in 1..Len(r.scope) |-> r.scope[j].name]

\* describe("A", () => { describe("B", () => { it("x", () => {}) }) })
TwoGroupsOneTest ==
  parse(Program(<<Stmt(Call(Id("describe"), <<Lit("'A'"), Callback(<<
          Stmt(Call(Id("describe"), <<Lit("'B'"), Callback(<<
            Stmt(Call(Id("it"), <<Lit("'x'"), Callback(<<>>)>>))>>)>>))>>)>>))>>))

\* C1, as claimed: `scope` holds exactly one frame per enclosing it / describe
\* call that is a proper ancestor of the test call, outermost first, and none for
\* the test call itself; two nested groups around a test give two frames.
C1_ScopeOfProperAncestors ==
  status = "returned" =>
    /\ \A i \in 1..Len(tests) :
         /\ OneFramePer(tests[i].scope, EnclosingFrames(CaseNode(tests[i])))
         /\ OutermostFirst(tests[i].scope)
         /\ \A j \in 1..Len(tests[i].scope) : ~FrameOf(tests[i].scope[j], CaseNode(tests[i]))
    /\ ast = TwoGroupsOneTest => Len(tests) = 1 /\ ScopeLabels(tests[1]) = <<"'A'", "'B'">>

\* C1, amended: `scope` holds exactly one frame per it / describe call among
\* the test call's ancestors and the test call itself, outermost first, so its
\* last frame is the test call's own; two nested groups labelled A and B around
\* a test labelled x give the three frames A, B, x.
C1_ScopeOfAncestorsAndSelf ==
  status = "returned" =>
    /\ \A i \in 1..Len(tests) :
         LET r == tests[i]
         IN /\ OneFramePer(r.scope, EnclosingFrames(CaseNode(r)) \cup {CaseNode(r)})
            /\ OutermostFirst(r.scope)
            /\ FrameOf(r.scope[Len(r.scope)], CaseNode(r))
    /\ ast = TwoGroupsOneTest =>
         Len(tests) = 1 /\ ScopeLabels(tests[1]) = <<"'A'", "'B'", "'x'">>

\* The two nested groups have been walked and the one test recorded.
C1_Witness ==
  /\ status = "returned"
  /\ ast = TwoGroupsOneTest
  /\ Len(tests) = 1
  /\ Len(tests[1].scope) = 3

\* The property a dotted name ends in: the token after its last ".".
LastProperty(name) ==
  IF Len(name) >= 2 /\ name[Len(name) - 1] = "." THEN name[Len(name)] ELSE ""

\* The suffixes that set each aggregate flag.
FlagSuffixes ==
  [skip |-> {"skip"}, only |-> {"only"}, iosOnly |-> {"ios", "iosOnly"},
   androidOnly |-> {"android", "androidOnly"}]

\* C2: on every test record each of skip / only / iosOnly / androidOnly is
\* present, with value true, iff the test call's own name or the name of an
\* enclosing it / describe call ends in the flag's suffix; otherwise the key is
\* absent.
C2_AggregateFlags ==
  status = "returned" =>
    \A i \in 1..Len(tests) :
      \A flag \in DOMAIN FlagSuffixes :
        LET r == tests[i]
            contributing == {c \in EnclosingFrames(CaseNode(r)) \cup {CaseNode(r)} :
                               LastProperty(parseCallee(c)) \in FlagSuffixes[flag]}
        IN /\ flag \in DOMAIN r <=> contributing # {}
           /\ flag \in DOMAIN r => r[flag] = TRUE

\* An unsuffixed test inside describe.only has been recorded with only: true.
C2_Witness ==
  /\ status = "returned"
  /\ Len(tests) = 1
  /\ parseCallee(CaseNode(tests[1])) = <<"it">>
  /\ \E c \in EnclosingFrames(CaseNode(tests[1])) : parseCallee(c) = <<"describe", ".", "only">>
  /\ "only" \in DOMAIN tests[1]
  /\ "skip" \notin DOMAIN tests[1]

\* The calls whose resolved name is exactly a hook's.
HookCalls ==
  {c \in CallExpressionsIn(ast) :
     parseCallee(c) # Null /\ Text(parseCallee(c)) \in SUPPORTED_HOOKS}

\* One argument, a function literal, and no enclosing call of the `it` family.
QualifiesAsHook(c) ==
  /\ Len(c.arguments) = 1
  /\ c.arguments[1].type \in {"FunctionExpression", "ArrowFunctionExpression"}
  /\ ~\E e \in CallExpressionsIn(ast) :
        Inside(c, e) /\ parseCallee(e) # Null /\ isTestIdentifier(parseCallee(e))

\* The records of bucket b made for the call c.
HookRecords(b, c) ==
  {i \in 1..Len(hooks[b]) : hooks[b][i].start = c.start /\ hooks[b][i].end = c.end}

\* C3: a call named exactly beforeAll, beforeEach, afterAll or afterEach yields
\* a hook record (exactly one, in the bucket of its name) iff it has exactly one
\* argument, a function literal, and no enclosing call of the `it` family; any
\* other such call yields no record and no error; a qualifying hook at file top
\* level has an empty scope.
C3_HookClassification ==
  /\ status = "returned" =>
       /\ \A c \in HookCalls : \A b \in SUPPORTED_HOOKS :
            Cardinality(HookRecords(b, c))
              = IF QualifiesAsHook(c) /\ b = Text(parseCallee(c)) THEN 1 ELSE 0
       /\ \A b \in SUPPORTED_HOOKS :
            /\ Len(hooks[b]) = Cardinality({c \in HookCalls : HookRecords(b, c) # {}})
            /\ \A i \in 1..Len(hooks[b]) :
                 (~\E e \in CallExpressionsIn(ast) : Inside(CaseNode(hooks[b][i]), e))
                   => hooks[b][i].scope = <<>>
  /\ status = "TypeError" =>
       LET thrower == Visits(ast)[idx].node
       IN ~(thrower \in HookCalls /\ ~QualifiesAsHook(thrower))

\* A top-level beforeEach(() => {}) has been recorded with an empty scope.
C3_Witness ==
  /\ status = "returned"
  /\ Len(hooks["beforeEach"]) = 1
  /\ hooks["beforeEach"][1].scope = <<>>
  /\ hooks["beforeEach"][1].start = 0
  /\ \E c \in HookCalls : ~QualifiesAsHook(c)

----------------------------------------------------------------------------
(* The exported-function extractor.                                        *)

\* ast.body.filter(n => n is `export default <identifier>;`)
DefaultExports(tree) ==
  SelectSeq(tree.body, LAMBDA n : n.type = "ExportDefaultDeclaration"
                                    /\ n.declaration.type = "Identifier")

\* Meaningful only when DefaultExports(tree) is not empty.
exportDefaultDeclaration(tree) == Head(DefaultExports(tree))

\* The value `undefined` of defaultExportedIdentifier: no identifier is empty.
NoIdentifier == ""

defaultExportedIdentifier(tree) ==
  IF DefaultExports(tree) = <<>> THEN NoIdentifier
  ELSE exportDefaultDeclaration(tree).declaration.name

\* The record both register functions push, `func` being the function node.
FunctionRecord(name, func, p, found) ==
  [name |-> name, start |-> p.start, end |-> p.end,
   exportStart |-> p.exportStart, exportEnd |-> p.exportEnd,
   funcStart |-> func.body.start, funcEnd |-> func.body.end,
   async |-> func.async, calls |-> found.calls]

registerExportedFuncNode(p) ==
  LET found == findFuncCalls(p.node.body)
  IN IF found.threw THEN [do |-> "TypeError"]
     ELSE [do |-> "push", func |-> FunctionRecord(p.node.id.name, p.node, p, found)]

\* registerExportedArrowFuncNode taking the declaration's span for the export's.
RegisterArrowWithOwnSpan(p) ==
  LET funcNode == p.node.init
      found == findFuncCalls(funcNode.body)
      own == [p EXCEPT !.exportStart = p.start, !.exportEnd = p.end]
  IN IF found.threw THEN [do |-> "TypeError"]
     ELSE [do |-> "push", func |-> FunctionRecord(p.node.id.name, funcNode, own, found)]

\* Both asserts hold at its one call site.
registerExportedArrowFuncNode(p) ==
  LET funcNode == p.node.init
      found == findFuncCalls(funcNode.body)
  IN IF found.threw THEN [do |-> "TypeError"]
     ELSE [do |-> "push", func |-> FunctionRecord(p.node.id.name, funcNode, p, found)]

\* The offset of the first declarator.
FirstDeclaratorStart(node) == node.declarations[1].start

\* node.declarations[1].start: the offset the ParseLimitationsError carries.
ParseLimitationsOffset(node) == node.declarations[2].start

\* p has exportStart / exportEnd only when the declaration is exported.
maybeRegisterVariableDeclarations(p, tree) ==
  LET node == p.node
      isExported == "exportStart" \in DOMAIN p
      hasArrowFuncDeclaration ==
        \E i \in 1..Len(node.declarations) :
          node.declarations[i].init.type = "ArrowFunctionExpression"
      hasIdentMatchingDefaultExport ==
        /\ defaultExportedIdentifier(tree) # NoIdentifier
        /\ \E i \in 1..Len(node.declarations) :
             node.declarations[i].id.name = defaultExportedIdentifier(tree)
  IN IF ~hasArrowFuncDeclaration THEN [do |-> "skip"]
     ELSE IF ~isExported /\ ~hasIdentMatchingDefaultExport THEN [do |-> "skip"]
     ELSE IF Len(node.declarations) > 1
     THEN [do |-> "throw", atChar |-> ParseLimitationsOffset(node)]
     ELSE registerExportedArrowFuncNode(
            [node |-> node.declarations[1],
             exportStart |-> IF isExported THEN p.exportStart
                             ELSE exportDefaultDeclaration(tree).start,
             exportEnd |-> IF isExported THEN p.exportEnd
                           ELSE exportDefaultDeclaration(tree).end,
             start |-> p.start, end |-> p.end])

\* The callback of ast.body.forEach: what it does for one top-level statement.
bodyForEach(node, tree) ==
  IF node.type = "ExportNamedDeclaration" /\ node.declaration.type # "null"
  THEN IF node.declaration.type = "FunctionDeclaration"
       THEN registerExportedFuncNode(
              [node |-> node.declaration, exportStart |-> node.start,
               exportEnd |-> node.end, start |-> node.start, end |-> node.end])
       ELSE IF node.declaration.type = "VariableDeclaration"
                 /\ node.declaration.kind = "const"
       THEN maybeRegisterVariableDeclarations(
              [node |-> node.declaration, exportStart |-> node.start,
               exportEnd |-> node.end, start |-> node.start, end |-> node.end], tree)
       ELSE [do |-> "skip"]
  ELSE IF node.type = "VariableDeclaration" /\ node.kind = "const"
  THEN maybeRegisterVariableDeclarations(
         [node |-> node, start |-> node.start, end |-> node.end], tree)
  ELSE IF /\ node.type = "FunctionDeclaration"
          /\ defaultExportedIdentifier(tree) # NoIdentifier
          /\ node.id.name = defaultExportedIdentifier(tree)
  THEN registerExportedFuncNode(
         [node |-> node, exportStart |-> exportDefaultDeclaration(tree).start,
          exportEnd |-> exportDefaultDeclaration(tree).end,
          start |-> node.start, end |-> node.end])
  ELSE [do |-> "skip"]

----------------------------------------------------------------------------
(* findExportedFunc over small files.                                      *)

MaxTopLevel == 2

EmptyArrow == Arrow(FALSE, Block(<<>>))

ExportConst(ds) == ExportNamed(VarDecl("const", ds))

\* One declaration or export of each kind the extractor tells apart.
TopLevelShapes ==
  {ExportNamed(FuncDecl("a", TRUE, Block(<<Stmt(Call(Id("g"), <<>>))>>))),
   ExportConst(<<Declarator("b", EmptyArrow)>>),
   VarDecl("const", <<Declarator("c", Arrow(TRUE, Block(<<>>)))>>),
   FuncDecl("d", FALSE, Block(<<>>)),
   ExportDefault(Id("b")), ExportDefault(Id("c")), ExportDefault(Id("d")),
   ExportDefault(EmptyArrow),
   ExportNamed(VarDecl("let", <<Declarator("e", EmptyArrow)>>)),
   ExportConst(<<Declarator("e", Lit("1"))>>),
   VarDecl("const", <<Declarator("d", Lit("1"))>>),
   VarDecl("let", <<Declarator("c", EmptyArrow)>>),
   ExportNamed(Hole),
   ExportConst(<<Declarator("a", Id("x")), Declarator("b", EmptyArrow)>>),
   ExportConst(<<Declarator("a", EmptyArrow), Declarator("b", Lit("1"))>>),
   ExportConst(<<Declarator("e", Lit("1")), Declarator("f", Lit("0")),
                 Declarator("a", EmptyArrow)>>),
   VarDecl("const", <<Declarator("c", EmptyArrow), Declarator("e", Lit("1"))>>),
   VarDecl("const", <<Declarator("c", Lit("1")), Declarator("e", EmptyArrow)>>),
   VarDecl("const", <<Declarator("e", Lit("1")), Declarator("f", Lit("0"))>>)}

\* The names a statement declares.
DeclaredNames(s) ==
  CASE s.type = "FunctionDeclaration" -> {s.id.name}
    [] s.type = "VariableDeclaration" ->
         {s.declarations[i].id.name : i \in 1..Len(s.declarations)}
    [] s.type = "ExportNamedDeclaration" /\ s.declaration.type = "FunctionDeclaration" ->
         {s.declaration.id.name}
    [] s.type = "ExportNamedDeclaration" /\ s.declaration.type = "VariableDeclaration" ->
         {s.declaration.declarations[i].id.name : i \in 1..Len(s.declaration.declarations)}
    [] OTHER -> {}

\* What the parser accepts: no name declared twice, one default export at most.
WellFormed(ss) ==
  \A i, j \in 1..Len(ss) :
    i < j => /\ DeclaredNames(ss[i]) \cap DeclaredNames(ss[j]) = {}
             /\ ~(ss[i].type = "ExportDefaultDeclaration"
                    /\ ss[j].type = "ExportDefaultDeclaration")

RECURSIVE TopLevelLists(_)

TopLevelLists(n) ==
  IF n = 0 THEN {<<>>}
  ELSE TopLevelLists(n - 1)
         \cup {Append(ss, s) : ss \in TopLevelLists(n - 1), s \in TopLevelShapes}

ExportInputs == {parse(Program(ss)) : ss \in {l \in TopLevelLists(MaxTopLevel) : WellFormed(l)}}

InitExport ==
  /\ ast \in ExportInputs
  /\ status = "walking"
  /\ idx = 0
  /\ dotted = Null
  /\ calls = <<>>
  /\ tests = <<>>
  /\ hooks = NoHooks
  /\ functions = <<>>
  /\ atChar = 0
  /\ DriverIdle

\* The next turn of ast.body.forEach in findExportedFunc.
ExportStatement ==
  /\ status = "walking"
  /\ idx < Len(ast.body)
  /\ \E r \in {bodyForEach(ast.body[idx + 1], ast)} :
        /\ status' = CASE r.do = "throw" -> "ParseLimitationsError"
                       [] r.do = "TypeError" -> "TypeError"
                       [] OTHER -> status
        /\ functions' = IF r.do = "push" THEN Append(functions, r.func) ELSE functions
        /\ atChar' = IF r.do = "throw" THEN r.atChar ELSE atChar
  /\ idx' = idx + 1
  /\ UNCHANGED <<driverVars, ast, dotted, calls, tests, hooks>>

\* return { functions: exportedFunctions }
ExportReturn ==
  /\ status = "walking"
  /\ idx = Len(ast.body)
  /\ status' = "returned"
  /\ UNCHANGED <<driverVars, ast, idx, dotted, calls, tests, hooks, functions, atChar>>

NextExport == ExportStatement \/ ExportReturn

SpecExport == InitExport /\ [][NextExport]_vars

(* What the claims about the exported-function extractor speak of.         *)

\* The file's `export default <identifier>;` statements (one at most).
DefaultExportStatements ==
  {j \in 1..Len(ast.body) : /\ ast.body[j].type = "ExportDefaultDeclaration"
                            /\ ast.body[j].declaration.type = "Identifier"}

\* NAME is the identifier of the file's `export default NAME;`.
IsDefaultExported(name) ==
  \E j \in DefaultExportStatements : ast.body[j].declaration.name = name

\* A `const` declaration of one declarator whose initializer is an arrow function.
IsSingleArrowConst(d) ==
  /\ d.type = "VariableDeclaration"
  /\ d.kind = "const"
  /\ Len(d.declarations) = 1
  /\ d.declarations[1].init.type = "ArrowFunctionExpression"

\* Which of the four idioms the statement s matches, 0 for none.
Idiom(s) ==
  CASE s.type = "ExportNamedDeclaration" /\ s.declaration.type = "FunctionDeclaration" -> 1
    [] s.type = "ExportNamedDeclaration" /\ IsSingleArrowConst(s.declaration) -> 2
    [] IsSingleArrowConst(s) /\ IsDefaultExported(s.declarations[1].id.name) -> 3
    [] s.type = "FunctionDeclaration" /\ IsDefaultExported(s.id.name) -> 4
    [] OTHER -> 0

\* The NAME of a statement that matches an idiom.
IdiomName(s) ==
  CASE Idiom(s) = 1 -> s.declaration.id.name
    [] Idiom(s) = 2 -> s.declaration.declarations[1].id.name
    [] Idiom(s) = 3 -> s.declarations[1].id.name
    [] Idiom(s) = 4 -> s.id.name

\* The records `functions` holds for the statement s.
RecordsOf(s) == {i \in 1..Len(functions) : functions[i].start = s.start /\ functions[i].end = s.end}

\* C9: findExportedFunc records a function for a top-level statement iff the
\* statement matches one of the four idioms; the record's name is NAME, never
\* "default"; for idioms 1-2 exportStart / exportEnd equal start / end, for
\* idioms 3-4 start / end are the declaration's span and exportStart / exportEnd
\* the span of the `export default` statement, wherever it stands in the file.
C9_FourIdioms ==
  status = "returned" =>
    /\ Len(functions) = Cardinality({j \in 1..Len(ast.body) : Idiom(ast.body[j]) # 0})
    /\ \A j \in 1..Len(ast.body) :
         LET s == ast.body[j]
         IN /\ Cardinality(RecordsOf(s)) = IF Idiom(s) # 0 THEN 1 ELSE 0
            /\ \A i \in RecordsOf(s) :
                 LET f == functions[i]
                 IN /\ f.name = IdiomName(s)
                    /\ f.name # "default"
                    /\ Idiom(s) \in {1, 2} => f.exportStart = f.start /\ f.exportEnd = f.end
                    /\ Idiom(s) \in {3, 4} =>
                         \E k \in DefaultExportStatements :
                           /\ f.exportStart = ast.body[k].start
                           /\ f.exportEnd = ast.body[k].end

\* `export default c;` standing before `const c = async () => {}` has been
\* returned as one record whose export span lies before its declaration.
C9_Witness ==
  /\ status = "returned"
  /\ Len(functions) = 1
  /\ Len(ast.body) = 2
  /\ Idiom(ast.body[2]) = 3
  /\ functions[1].exportEnd <= functions[1].start
  /\ functions[1].async

\* The `const` declaration a statement holds, exported or not.
ConstDeclarationOf(s) ==
  IF s.type = "ExportNamedDeclaration" THEN s.declaration ELSE s

\* A `const` statement of several declarators that would otherwise match idiom
\* 2 or 3: it is exported or declares the default-exported identifier, and one
\* of its declarators has an arrow-function initializer.
IsMultiDeclaratorExport(s) ==
  LET d == ConstDeclarationOf(s)
  IN /\ d.type = "VariableDeclaration"
     /\ d.kind = "const"
     /\ Len(d.declarations) > 1
     /\ \E i \in 1..Len(d.declarations) :
          d.declarations[i].init.type = "ArrowFunctionExpression"
     /\ \/ s.type = "ExportNamedDeclaration"
        \/ \E i \in 1..Len(d.declarations) : IsDefaultExported(d.declarations[i].id.name)

\* The first declarator of d whose initializer is an arrow function.
ArrowDeclarator(d) ==
  d.declarations[CHOOSE i \in 1..Len(d.declarations) :
                   /\ d.declarations[i].init.type = "ArrowFunctionExpression"
                   /\ \A k \in 1..(i - 1) :
                        d.declarations[k].init.type # "ArrowFunctionExpression"]

\* findExportedFunc stops at the first such statement, and only there, with a
\* ParseLimitationsError; nothing is returned after it.
AbortsOnMultiDeclarator ==
  /\ status = "returned" => \A j \in 1..Len(ast.body) : ~IsMultiDeclaratorExport(ast.body[j])
  /\ status = "ParseLimitationsError" =>
       /\ IsMultiDeclaratorExport(ast.body[idx])
       /\ \A j \in 1..(idx - 1) : ~IsMultiDeclaratorExport(ast.body[j])
       /\ ~ENABLED NextExport

\* C10, as claimed: a multi-declarator `const` statement that would otherwise
\* match idiom 2 or 3 aborts findExportedFunc for the whole file with a
\* ParseLimitationsError, and the error's offset is the start of the declarator
\* whose initializer is the arrow function.
C10_OffsetAtArrowDeclarator ==
  /\ AbortsOnMultiDeclarator
  /\ status = "ParseLimitationsError" =>
       atChar = ArrowDeclarator(ConstDeclarationOf(ast.body[idx])).start

\* C10, amended: such a statement aborts findExportedFunc for the whole file
\* with a ParseLimitationsError, and the error's offset is the start of the
\* statement's second declarator, whichever declarator holds the arrow function.
C10_OffsetAtSecondDeclarator ==
  /\ AbortsOnMultiDeclarator
  /\ status = "ParseLimitationsError" =>
       atChar = ConstDeclarationOf(ast.body[idx]).declarations[2].start

\* `export const a = () => {}, b = '1'` has aborted the extraction, the offset
\* being that of b although the arrow function is a's.
C10_Witness ==
  /\ status = "ParseLimitationsError"
  /\ ast.body[idx].type = "ExportNamedDeclaration"
  /\ ArrowDeclarator(ast.body[idx].declaration) = ast.body[idx].declaration.declarations[1]
  /\ atChar = ast.body[idx].declaration.declarations[2].start

----------------------------------------------------------------------------
(* Unsupported callee shapes.                                              *)

RECURSIVE HasUnsupportedShape(_)

\* The callee chain n holds a `new` expression, an array, string or template
\* literal as receiver, or a computed member access.
HasUnsupportedShape(n) ==
  CASE n.type \in {"Identifier", "ThisExpression"} -> FALSE
    [] n.type = "MemberExpression" -> n.computed \/ HasUnsupportedShape(n.object)
    [] n.type = "CallExpression" -> HasUnsupportedShape(n.callee)
    [] OTHER -> TRUE

\* C11: for every call expression whose callee chain holds an unsupported shape
\* (a `new` expression, array, string or template literal receiver, or a
\* computed member access such as a[b]() or a["x"]()), name resolution yields
\* null, so that no call site is recorded for it.
C11_UnsupportedYieldsNull ==
  (status = "returned" /\ HasUnsupportedShape(ast.callee)) => dotted = Null

----------------------------------------------------------------------------
(* Tests of too few arguments, and the flags of hooks.                     *)

\* A call of the `it` family given fewer than two arguments.
IsTestWithoutFunction(c) ==
  /\ parseCallee(c) # Null
  /\ isTestIdentifier(parseCallee(c))
  /\ Len(c.arguments) < 2

\* C12: a call of the `it` family with zero or one argument, such as
\* it("todo"), yields no test record, and findTests still completes normally:
\* the walk never stops at such a call.
C12_TestsNeedTwoArguments ==
  /\ status = "returned" =>
       \A c \in CallExpressionsIn(ast) :
         IsTestWithoutFunction(c) =>
           ~\E i \in 1..Len(tests) : tests[i].start = c.start /\ tests[i].end = c.end
  /\ status = "TypeError" => ~IsTestWithoutFunction(Visits(ast)[idx].node)

AggregateFlags == {"skip", "only", "iosOnly", "androidOnly"}

\* C13, as claimed: on every hook record each aggregate flag is present, with
\* value true, iff at least one frame of the hook's scope carries that flag.
C13_HookFlagsFromScope ==
  status = "returned" =>
    \A b \in SUPPORTED_HOOKS : \A i \in 1..Len(hooks[b]) : \A flag \in AggregateFlags :
      LET h == hooks[b][i]
      IN /\ flag \in DOMAIN h <=> SomeFrame(h.scope, flag)
         /\ flag \in DOMAIN h => h[flag] = TRUE

\* C13, amended: no hook record carries an aggregate flag, whatever its scope;
\* the flags of the enclosing groups are found on the frames of its scope only,
\* a frame carrying a flag iff the frame's name ends in the flag's suffix.
C13_HookFlagsOnFramesOnly ==
  status = "returned" =>
    \A b \in SUPPORTED_HOOKS : \A i \in 1..Len(hooks[b]) : \A flag \in AggregateFlags :
      LET h == hooks[b][i]
      IN /\ flag \notin DOMAIN h
         /\ \A j \in 1..Len(h.scope) :
              flag \in DOMAIN h.scope[j]
                <=> LastProperty(h.scope[j].func) \in FlagSuffixes[flag]

\* A beforeEach hook inside describe.only has been recorded, its frame flagged.
C13_Witness ==
  /\ status = "returned"
  /\ Len(hooks["beforeEach"]) = 1
  /\ Len(hooks["beforeEach"][1].scope) = 1
  /\ "only" \in DOMAIN hooks["beforeEach"][1].scope[1]
  /\ "only" \notin DOMAIN hooks["beforeEach"][1]

----------------------------------------------------------------------------
(* The buckets of the `hooks` mapping.                                     *)

\* README: the bucket a hook written under `name` is listed in.
DocumentedBucket(name) ==
  CASE name = "beforeAll" -> "before"
    [] name = "afterAll" -> "after"
    [] OTHER -> name

\* C14: the output of test extraction holds a `hooks` mapping with exactly the
\* four buckets before, beforeEach, after and afterEach, hooks written as
\* beforeAll(...) being listed under `before` and hooks written as
\* afterAll(...) under `after`.
C14_HookBucketNames ==
  status = "returned" =>
    /\ DOMAIN hooks = {"before", "beforeEach", "after", "afterEach"}
    /\ \A c \in HookCalls :
         QualifiesAsHook(c) =>
           \E i \in 1..Len(hooks[DocumentedBucket(Text(parseCallee(c)))]) :
             LET h == hooks[DocumentedBucket(Text(parseCallee(c)))][i]
             IN h.start = c.start /\ h.end = c.end

----------------------------------------------------------------------------
(* utils.js: offsets to line and column.  A file's text is the sequence of *)
(* its characters; a path is the sequence of its code units.               *)

LF == "\n"

Path(units) == [k |-> "path", units |-> units]

RECURSIVE split(_)

\* content.split("\n"): the lines of a text, their line feeds stripped.
split(content) ==
  IF \A i \in 1..Len(content) : content[i] # LF THEN <<content>>
  ELSE LET i == CHOOSE k \in 1..Len(content) :
                  content[k] = LF /\ \A j \in 1..(k - 1) : content[j] # LF
       IN <<SubSeq(content, 1, i - 1)>> \o split(SubSeq(content, i + 1, Len(content)))

\* fs.readFileSync fails on a filename that is undefined or names no file.
Readable(filename, files) == filename # Undefined /\ filename \in DOMAIN files

\* getFileLineInfo with the stripped line feed not counted back in.
GetFileLineInfoWithoutLineFeed(filename, files) ==
  LET content == files[filename].text
      lines == split(content)
  IN [size |-> Len(content),
      lineLengths |-> [i \in 1..Len(lines) |-> Len(lines[i])]]

\* Meaningful only when the file is readable.
getFileLineInfo(filename, files) ==
  LET content == files[filename].text
      lines == split(content)
  IN [size |-> Len(content),
      lineLengths |-> [i \in 1..Len(lines) |-> Len(lines[i]) + 1]]

\* _fileLineInfoCache.filename, `undefined` while the cache is `{}`.
CachedFilename(cache) == IF "filename" \in DOMAIN cache THEN cache.filename ELSE Undefined

\* The cache getCachedFileLineInfo leaves behind, whether it called
\* getFileLineInfo, and whether that failed; what it returns is the `info` of
\* that cache, `undefined` while the cache is `{}`.
getCachedFileLineInfo(filename, cache, files) ==
  IF filename # CachedFilename(cache)
  THEN IF Readable(filename, files)
       THEN [threw |-> FALSE, read |-> TRUE,
             cache |-> [filename |-> filename, info |-> getFileLineInfo(filename, files)]]
       ELSE [threw |-> TRUE, read |-> TRUE, cache |-> cache]
  ELSE [threw |-> FALSE, read |-> FALSE, cache |-> cache]

RECURSIVE LineOf(_, _, _, _)

\* The loop of mapCharOffsetToLineno from (1-based) line i on.
LineOf(lineLengths, offset, i, runningSum) ==
  IF i > Len(lineLengths) THEN Undefined
  ELSE IF runningSum + lineLengths[i] > offset
  THEN [line |-> i, col |-> offset - runningSum + 1]
  ELSE LineOf(lineLengths, offset, i + 1, runningSum + lineLengths[i])

\* What a call does: the error it throws if any, the value it returns
\* otherwise, and the cache it leaves.
mapCharOffsetToLineno(filename, offset, cache, files) ==
  LET got == getCachedFileLineInfo(filename, cache, files)
  IN IF got.threw
     THEN [threw |-> "TypeError", value |-> Undefined, cache |-> got.cache]
     ELSE IF "info" \notin DOMAIN got.cache
     THEN [threw |-> "TypeError", value |-> Undefined, cache |-> got.cache]
     ELSE IF ~(offset <= got.cache.info.size)
     THEN [threw |-> "AssertionError", value |-> Undefined, cache |-> got.cache]
     ELSE [threw |-> "no", cache |-> got.cache,
           value |-> LineOf(got.cache.info.lineLengths, offset, 1, 0)]

----------------------------------------------------------------------------
(* mapCharOffsetToLineno over small files.                                 *)

MaxTextLen == 3

RECURSIVE Texts(_)

\* The texts of at most n characters, line feeds among them.
Texts(n) ==
  IF n = 0 THEN {<<>>}
  ELSE Texts(n - 1) \cup {Append(t, c) : t \in Texts(n - 1), c \in {"a", LF}}

TextFile(text) == [text |-> text]

FirstPath == Path(<<1>>)
SecondPath == Path(<<2>>)

InitLineno ==
  /\ ast = Empty
  /\ status = "ready"
  /\ idx = 0
  /\ dotted = Null
  /\ calls = <<>>
  /\ tests = <<>>
  /\ hooks = NoHooks
  /\ functions = <<>>
  /\ atChar = 0
  /\ command = "none"
  /\ disk \in [{FirstPath, SecondPath} -> {TextFile(t) : t \in Texts(MaxTextLen)}]
  /\ filenames = <<>>
  /\ out = Empty
  /\ stdout = <<>>
  /\ stderr = <<>>
  /\ exitCode = 0
  /\ _fileLineInfoCache = Empty
  /\ loc = Empty

\* A caller asks for the position of an offset of a file: any offset from 0
\* to one past the file's size.  `loc` keeps the call and its outcome.
MapCharOffsetToLineno ==
  \E filename \in DOMAIN disk :
    \E offset \in 0..(Len(disk[filename].text) + 1) :
      \E r \in {mapCharOffsetToLineno(filename, offset, _fileLineInfoCache, disk)} :
        /\ loc' = [filename |-> filename, offset |-> offset,
                   threw |-> r.threw, value |-> r.value]
        /\ _fileLineInfoCache' = r.cache
        /\ status' = IF r.threw = "no" THEN "returned" ELSE r.threw
        /\ UNCHANGED <<ast, idx, dotted, calls, tests, hooks, functions, atChar,
                       command, disk, filenames, out, stdout, stderr, exitCode>>

NextLineno == MapCharOffsetToLineno

SpecLineno == InitLineno /\ [][NextLineno]_vars

RECURSIVE SumOf(_)

SumOf(lengths) == IF lengths = <<>> THEN 0 ELSE Head(lengths) + SumOf(Tail(lengths))

\* The lengths of the lines of a text, each with its line feed counted (the
\* last line's too, present or not).
LengthsOfLines(text) == [i \in 1..Len(split(text)) |-> Len(split(text)[i]) + 1]

\* C20: for every file content and every offset with 0 <= offset <= size,
\* mapCharOffsetToLineno returns a defined {line, col} with line >= 1 and
\* col >= 1, offset being the total length of the lines before `line` plus
\* col - 1 and col not exceeding the length of that line, line feed included;
\* an offset greater than size fails the assertion instead.
C20_OffsetToLineAndColumn ==
  loc # Empty =>
    LET text == disk[loc.filename].text
        lengths == LengthsOfLines(text)
    IN IF loc.offset <= Len(text)
       THEN /\ loc.threw = "no"
            /\ loc.value # Undefined
            /\ loc.value.line >= 1
            /\ loc.value.line <= Len(lengths)
            /\ loc.value.col >= 1
            /\ loc.offset = SumOf(SubSeq(lengths, 1, loc.value.line - 1)) + loc.value.col - 1
            /\ loc.value.col <= lengths[loc.value.line]
       ELSE loc.threw = "AssertionError"

\* The end of a two-line file whose last line has no line feed has been mapped:
\* offset 3 of "a\na" is line 2, column 2.
C20_Witness ==
  /\ loc # Empty
  /\ disk[loc.filename].text = <<"a", LF, "a">>
  /\ loc.offset = 3
  /\ loc.value = [line |-> 2, col |-> 2]

----------------------------------------------------------------------------
(* The extractors as the batch driver calls them, and the driver.          *)

\* readFileAndParseAST's `null`: the file is a script, not a source file.
NoTree == [type |-> "null"]

\* A file's text starts with "#!".
IsScript(file) == Len(file.text) >= 2 /\ file.text[1] = "#" /\ file.text[2] = "!"

\* The tree of a file's text is the one laid out from the file's `shape`.
readFileAndParseAST(file) == IF IsScript(file) THEN NoTree ELSE parse(file.shape)

RECURSIVE TestsFold(_, _, _, _), TestsAfter(_, _, _, _, _)
RECURSIVE ExportFold(_, _, _), ExportAfter(_, _, _, _)

\* The callbacks of findTests' walk from (1-based) visit i on.
TestsFold(visits, i, ts, hs) ==
  IF i > Len(visits)
  THEN [result |-> "returned", value |-> [tests |-> ts, hooks |-> hs]]
  ELSE TestsAfter(TestCallVisitor(visits[i].node, visits[i].ancestors), visits, i, ts, hs)

\* The walk once callback i has done r.
TestsAfter(r, visits, i, ts, hs) ==
  CASE r.do = "throw" -> [result |-> "TypeError"]
    [] r.do = "test" -> TestsFold(visits, i + 1, Append(ts, r.record), hs)
    [] r.do = "hook" ->
         TestsFold(visits, i + 1, ts, [hs EXCEPT ![r.bucket] = Append(@, r.record)])
    [] OTHER -> TestsFold(visits, i + 1, ts, hs)

\* findTests(ast) as one value: `if (ast)` skips the walk of a null tree.
findTests(tree) ==
  IF tree = NoTree
  THEN [result |-> "returned", value |-> [tests |-> <<>>, hooks |-> NoHooks]]
  ELSE TestsFold(Visits(tree), 1, <<>>, NoHooks)

ParseLimitationsMessage == "No support for function export within multi-variable declaration"

\* ast.body.forEach from (1-based) statement j on.
ExportFold(tree, j, fs) ==
  IF j > Len(tree.body)
  THEN [result |-> "returned", value |-> [functions |-> fs]]
  ELSE ExportAfter(bodyForEach(tree.body[j], tree), tree, j, fs)

\* The loop once the callback has done r for statement j.
ExportAfter(r, tree, j, fs) ==
  CASE r.do = "throw" ->
         [result |-> "ParseLimitationsError",
          message |-> ParseLimitationsMessage, atChar |-> r.atChar]
    [] r.do = "TypeError" -> [result |-> "TypeError"]
    [] r.do = "push" -> ExportFold(tree, j + 1, Append(fs, r.func))
    [] OTHER -> ExportFold(tree, j + 1, fs)

\* findExportedFunc(ast) as one value: `ast.body` of a null tree is a TypeError.
findExportedFunc(tree) ==
  IF tree = NoTree THEN [result |-> "TypeError"] ELSE ExportFold(tree, 1, <<>>)

\* The extractor each command of the driver runs on a file's tree.
Extract(cmd, tree) == IF cmd = "tests" THEN findTests(tree) ELSE findExportedFunc(tree)

RECURSIVE Before(_, _)

\* The default order of Array.prototype.sort: by code units, a proper prefix
\* first.  Here on the code units of two paths.
Before(a, b) ==
  IF a = <<>> THEN b # <<>>
  ELSE IF b = <<>> THEN FALSE
  ELSE IF Head(a) # Head(b) THEN Head(a) < Head(b)
  ELSE Before(Tail(a), Tail(b))

RECURSIVE sort(_)

\* Array.from(resolved).sort()
sort(resolved) ==
  IF resolved = {} THEN <<>>
  ELSE LET first == CHOOSE p \in resolved :
                      \A q \in resolved \ {p} : Before(p.units, q.units)
       IN <<first>> \o sort(resolved \ {first})

\* quit(`ERROR: ${e.message}\n    at (${filename}:${loc.line}:${loc.col})`),
\* r being what mapCharOffsetToLineno did; reading `loc.line` of an undefined
\* loc is a TypeError.
quit(e, filename, r) ==
  IF r.threw # "no" THEN [threw |-> r.threw, cache |-> r.cache]
  ELSE IF r.value = Undefined THEN [threw |-> "TypeError", cache |-> r.cache]
  ELSE [threw |-> "no", cache |-> r.cache,
        message |-> [error |-> e.message, file |-> filename,
                     line |-> r.value.line, col |-> r.value.col]]

\* handleParseLimitationsError(e, filename): the error it throws if any, else
\* the message it quits with; and the cache it leaves.
handleParseLimitationsError(e, filename, cache, files) ==
  quit(e, filename, mapCharOffsetToLineno(filename, e.atChar, cache, files))

MaxFiles == 2

\* A source file of the given tree: its text is one line as long as the tree.
SourceFile(shape) ==
  [text |-> [i \in 1..parse(shape).end |-> "a"] \o <<LF>>, shape |-> shape]

\* #!/usr/bin/env node
ScriptFile == [text |-> <<"#", "!", LF>>]

BatchFiles ==
  {ScriptFile,
   SourceFile(Program(<<ExportNamed(FuncDecl("a", TRUE,
                                             Block(<<Stmt(Call(Id("g"), <<>>))>>)))>>)),
   SourceFile(Program(<<ExportConst(<<Declarator("a", EmptyArrow),
                                      Declarator("b", Lit("1"))>>)>>)),
   SourceFile(Program(<<Stmt(Call(Id("it"), <<Lit("'x'"), Callback(<<>>)>>))>>)),
   SourceFile(Program(<<Stmt(Call(Id("g"), <<>>))>>))}

BatchPaths == {Path(<<1>>), Path(<<1, 1>>), Path(<<1, 2>>), Path(<<2>>)}

\* The driver starts on the files resolvePaths found: `filenames` is sorted.
InitBatch ==
  /\ ast = Empty
  /\ status = "running"
  /\ idx = 0
  /\ dotted = Null
  /\ calls = <<>>
  /\ tests = <<>>
  /\ hooks = NoHooks
  /\ functions = <<>>
  /\ atChar = 0
  /\ command \in {"tests", "functions"}
  /\ \E resolved \in {S \in SUBSET BatchPaths : Cardinality(S) <= MaxFiles} :
       /\ disk \in [resolved -> BatchFiles]
       /\ filenames = sort(resolved)
  /\ out = Empty
  /\ stdout = <<>>
  /\ stderr = <<>>
  /\ exitCode = 0
  /\ _fileLineInfoCache = Empty
  /\ loc = Empty

\* One turn of `for (const filename of filenames)`: the file is read, parsed
\* and extracted.  A ParseLimitationsError goes to
\* handleParseLimitationsError(e), called without a filename; any other
\* error, one thrown by the handler included, reaches main().catch.
ProcessFile ==
  /\ status = "running"
  /\ idx < Len(filenames)
  /\ \E filename \in {filenames[idx + 1]} :
     \E r \in {Extract(command, readFileAndParseAST(disk[filename]))} :
       \/ /\ r.result = "returned"
          /\ out' = (filename :> r.value) @@ out
          /\ UNCHANGED <<status, stderr, exitCode, atChar, _fileLineInfoCache>>
       \/ /\ r.result = "ParseLimitationsError"
          /\ \E h \in {handleParseLimitationsError(r, Undefined, _fileLineInfoCache, disk)} :
               /\ stderr' = Append(stderr, IF h.threw = "no" THEN h.message
                                           ELSE [error |-> h.threw])
               /\ _fileLineInfoCache' = h.cache
          /\ atChar' = r.atChar
          /\ exitCode' = 1
          /\ status' = "exited"
          /\ UNCHANGED out
       \/ /\ r.result = "TypeError"
          /\ stderr' = Append(stderr, [error |-> "TypeError"])
          /\ exitCode' = 1
          /\ status' = "exited"
          /\ UNCHANGED <<out, atChar, _fileLineInfoCache>>
  /\ idx' = idx + 1
  /\ UNCHANGED <<ast, dotted, calls, tests, hooks, functions,
                 command, disk, filenames, stdout, loc>>

\* console.log(JSON.stringify(out, null, 2)), and the process ends.
DumpOutput ==
  /\ status = "running"
  /\ idx = Len(filenames)
  /\ stdout' = Append(stdout, out)
  /\ status' = "exited"
  /\ UNCHANGED <<ast, idx, dotted, calls, tests, hooks, functions, atChar,
                 command, disk, filenames, out, stderr, exitCode, _fileLineInfoCache, loc>>

NextBatch == ProcessFile \/ DumpOutput

SpecBatch == InitBatch /\ [][NextBatch]_vars

-----------------------------------------------------------------------------
(* The batch driver's contract. *)

\* What an extractor gives for a file with nothing to record.
NoRecords(cmd) ==
  IF cmd = "tests" THEN [tests |-> <<>>, hooks |-> NoHooks] ELSE [functions |-> <<>>]

\* What extraction of the i-th file does, as the driver's loop sees it.
Extraction(i) == Extract(command, readFileAndParseAST(disk[filenames[i]]))

\* C15: a file for which readFileAndParseAST reports no tree (it starts with
\* "#!") is treated as non-source by both extractors: once the driver is past
\* it, its entry of the output holds no tests and four empty hook buckets
\* (tests command) or no functions (functions command), the extractor having
\* returned normally.
C15_NoTreeIsNonSource ==
  \A i \in 1..idx :
    readFileAndParseAST(disk[filenames[i]]) = NoTree
      => /\ Extraction(i).result = "returned"
         /\ filenames[i] \in DOMAIN out
         /\ out[filenames[i]] = NoRecords(command)

\* C16: the files are taken one at a time in sorted path order.  Once the
\* extraction of a file has raised ParseLimitationsError, no later file is
\* processed, nothing is printed on stdout and the run has ended in failure.
\* If no file raises it, the run ends with every file processed once and the
\* output printed once, after the last file, holding every file's entry.
C16_SequentialAbortOrDump ==
  /\ \A i, j \in 1..Len(filenames) :
       i < j => Before(filenames[i].units, filenames[j].units)
  /\ DOMAIN out \subseteq {filenames[i] : i \in 1..idx}
  /\ \A i \in 1..idx :
       Extraction(i).result = "ParseLimitationsError"
         => idx = i /\ stdout = <<>> /\ exitCode = 1 /\ status = "exited"
  /\ (status = "exited"
        /\ \A i \in 1..Len(filenames) : Extraction(i).result # "ParseLimitationsError")
       => /\ idx = Len(filenames)
          /\ DOMAIN out = {filenames[i] : i \in 1..Len(filenames)}
          /\ stdout = <<out>>
          /\ exitCode = 0

\* C17: when the extraction of a file has raised ParseLimitationsError, the
\* driver has shown the error's message with that file's path and the line
\* and column mapCharOffsetToLineno gives for the error's offset in that
\* file, and has exited with status 1.
C17_FailureShownWithLocation ==
  \A i \in 1..idx :
    Extraction(i).result = "ParseLimitationsError"
      => /\ exitCode = 1
         /\ \E m \in {mapCharOffsetToLineno(filenames[i], Extraction(i).atChar, Empty, disk)} :
              /\ m.threw = "no"
              /\ stderr = <<[error |-> Extraction(i).message, file |-> filenames[i],
                             line |-> m.value.line, col |-> m.value.col]>>

-----------------------------------------------------------------------------
(* inferTestName on its own: the label of one frame call.                  *)

\* The first arguments a frame call is given: string literals, template
\* literals of up to two interpolations, a bare identifier, other shapes.
LabelArguments ==
  {Lit("'A'"), Lit("''"),
   Tpl(<<Quasi("t")>>, <<>>),
   Tpl(<<Quasi("p"), Quasi("q")>>, <<Id("n")>>),
   Tpl(<<Quasi(""), Quasi("q")>>, <<Member(Id("o"), "n")>>),
   Tpl(<<Quasi("p"), Quasi("")>>, <<Call(Id("f"), <<>>)>>),
   Tpl(<<Quasi("p"), Quasi("q"), Quasi("r")>>, <<Id("n"), Id("m")>>),
   Tpl(<<Quasi("p"), Quasi(""), Quasi("r")>>, <<Lit("1"), Id("m")>>),
   Id("name"), Call(Id("title"), <<>>), Member(Id("names"), "first"),
   Func(FALSE, Block(<<>>))}

\* The it/describe-family calls labelled by them, and the ones of no argument.
FrameCalls ==
  {Call(c, <<a, Callback(<<>>)>>) : c \in GroupCallees \cup TestCallees, a \in LabelArguments}
    \cup {Call(c, <<>>) : c \in GroupCallees \cup TestCallees}

InitLabel ==
  /\ ast \in {c \in FrameCalls : ScopeNodes(<<c>>) # <<>>}
  /\ status = "called"
  /\ idx = 0
  /\ dotted = Null
  /\ calls = <<>>
  /\ tests = <<>>
  /\ hooks = NoHooks
  /\ functions = <<>>
  /\ atChar = 0
  /\ DriverIdle

\* name: inferTestName(o.node) for the frame the call makes.
InferTestName ==
  /\ status = "called"
  /\ \E o \in {ScopeNodes(<<ast>>)[1]} :
     \E name \in {inferTestName(o.node)} :
        /\ out' = name
        /\ dotted' = o.dotted
        /\ status' = IF name = Thrown THEN "TypeError" ELSE "returned"
  /\ UNCHANGED <<ast, idx, calls, tests, hooks, functions, atChar,
                 command, disk, filenames, stdout, stderr, exitCode, _fileLineInfoCache, loc>>

NextLabel == InferTestName

SpecLabel == InitLabel /\ [][NextLabel]_vars

\* The token standing for an interpolation that is not a bare identifier.
GenericToken == "${undefined}"

RECURSIVE Concatenated(_, _)

\* quasi0, placeholder0, quasi1, ..., quasi n in that order, as one string.
Concatenated(quasis, expressions) ==
  IF expressions = <<>> THEN quasis[1].raw
  ELSE quasis[1].raw
         \o (IF expressions[1].type = "Identifier"
             THEN "${" \o expressions[1].name \o "}" ELSE GenericToken)
         \o Concatenated(Tail(quasis), Tail(expressions))

\* The label the rule gives a first argument.
LabelOf(node) ==
  CASE node.type = "Literal" -> Scalar(node.value)
    [] node.type = "TemplateLiteral" ->
         Scalar(StringToken(Concatenated(node.quasis, node.expressions)))
    [] node.type = "Identifier" -> Scalar(StringToken("${" \o node.name \o "}"))
    [] OTHER -> Scalar(StringToken("[Unparseable: " \o node.type \o "]"))

\* C18: for every it/describe-family call that makes a frame, label inference
\* returns, and the label follows the rule on the call's first argument: a
\* string literal's value; a template literal's quasis and placeholders in
\* order; `${name}` for a bare identifier; `[Unparseable: <node kind>]` for
\* any other shape.
C18_LabelOfFrame ==
  status # "called"
    => /\ status = "returned"
       /\ ast.arguments # <<>> => out = LabelOf(ast.arguments[1])

-----------------------------------------------------------------------------
(* The spans of the call sites findFuncCalls records.                      *)

\* The records `calls` holds for the call expression c, told by its name and
\* where it ends.
SitesNamed(c) == {i \in 1..Len(calls) : calls[i].name = parseCallee(c) /\ calls[i].end = c.end}

RECURSIVE ChainBelow(_)

\* The calls a call is chained on: `a.b()` for `a.b().c()`, and so on down.
ChainBelow(c) ==
  LET under == IF c.callee.type = "MemberExpression" THEN c.callee.object ELSE c.callee
  IN IF under.type = "CallExpression" THEN {under} \cup ChainBelow(under) ELSE {}

\* C19: every recorded call site has end >= start >= rootStart; it is the
\* record of a call expression of the tree whose start is its rootStart, and
\* its start is the start of the callee's property when the callee is a
\* member access and the call's start otherwise; the call sites of one chain
\* share their rootStart.
C19_CallSiteSpans ==
  /\ \A i \in 1..Len(calls) :
       /\ calls[i].end >= calls[i].start
       /\ calls[i].start >= calls[i].rootStart
       /\ \E c \in CallExpressionsIn(ast) :
            /\ i \in SitesNamed(c)
            /\ calls[i].rootStart = c.start
            /\ calls[i].start = IF c.callee.type = "MemberExpression"
                                THEN c.callee.property.start ELSE c.start
  /\ \A c \in CallExpressionsIn(ast) : \A d \in ChainBelow(c) :
       \A i \in SitesNamed(c), j \in SitesNamed(d) : calls[i].rootStart = calls[j].rootStart

\* A chain `g().then()` was recorded whole: two call sites of one rootStart,
\* the outer one starting at its property.
C19_Witness ==
  /\ status = "returned"
  /\ \E c \in CallExpressionsIn(ast) : \E d \in ChainBelow(c) :
       \E i \in SitesNamed(c), j \in SitesNamed(d) :
         /\ calls[i].rootStart = calls[j].rootStart
         /\ calls[i].start > calls[i].rootStart
         /\ calls[j].start = calls[j].rootStart
         /\ calls[i].end > calls[j].end

-----------------------------------------------------------------------------
(* getCachedFileLineInfo called again and again.                           *)

MaxCalls == 3

\* A caller asks for the line info of a file, or hands over no filename at
\* all (as handleParseLimitationsError(e) does).  `loc` keeps the call, what
\* the cache named before it, and its outcome; `idx` counts the calls.
GetCachedFileLineInfo ==
  /\ idx < MaxCalls
  /\ \E filename \in DOMAIN disk \cup {Undefined} :
     \E r \in {getCachedFileLineInfo(filename, _fileLineInfoCache, disk)} :
        /\ loc' = [filename |-> filename,
                   before |-> CachedFilename(_fileLineInfoCache),
                   first |-> idx = 0,
                   read |-> r.read,
                   threw |-> r.threw,
                   value |-> IF ~r.threw /\ "info" \in DOMAIN r.cache
                             THEN r.cache.info ELSE Undefined]
        /\ _fileLineInfoCache' = r.cache
        /\ status' = IF r.threw THEN "TypeError" ELSE "returned"
  /\ idx' = idx + 1
  /\ UNCHANGED <<ast, dotted, calls, tests, hooks, functions, atChar,
                 command, disk, filenames, out, stdout, stderr, exitCode>>

NextCache == GetCachedFileLineInfo

SpecCache == InitLineno /\ [][NextCache]_vars

\* C21: after any sequence of getCachedFileLineInfo calls the cache holds one
\* entry, that of the filename requested last; the last call read the file
\* iff its filename differs from the one the call before it left cached; and
\* it returned the line info of the file it was asked about (size and line
\* lengths of that file's text), never nothing, the first call included.
C21_OneEntryCache ==
  loc # Empty =>
    /\ DOMAIN _fileLineInfoCache = {"filename", "info"}
    /\ _fileLineInfoCache.filename = loc.filename
    /\ (~loc.first => (loc.read <=> loc.filename # loc.before))
    /\ (loc.first => loc.read)
    /\ ~loc.threw
    /\ loc.filename \in DOMAIN disk
    /\ loc.value = [size |-> Len(disk[loc.filename].text),
                    lineLengths |-> LengthsOfLines(disk[loc.filename].text)]

====
